---- MODULE Spec2Model ----
(***************************************************************************)
(* A model of azmlclient (python-azureml-client): the batch execution      *)
(* driver execute_bes and the job-control calls it makes, the HTTP         *)
(* transport http_call with the AzmlException decoding of error bodies,    *)
(* the parameter codec and the table codec of base_databinding.py.         *)
(*                                                                         *)
(* Python values are modelled as follows.  None is the string "None".      *)
(* A parsed JSON object is a record of its keys; a job status snapshot     *)
(* that lacks a key is a record without that field.  A call either         *)
(* returns or raises: [ok |-> TRUE, val |-> v] or [ok |-> FALSE,           *)
(* err |-> e], where an exception e is [type, msg, at]; `at` is the call   *)
(* site that raised it, which tells one exception object from another.     *)
(***************************************************************************)
EXTENDS Integers, Sequences, FiniteSets, TLC

VARIABLES
    pc,             \* execute_bes: position of the driver
    json_job_id,    \* execute_bes: local json_job_id ("None" until create returns)
    outputs_refs2,  \* execute_bes: local outputs_refs2 ("None" while polling)
    pending,        \* execute_bes: the exception in flight when the finally block runs
    outcome,        \* execute_bes: what the caller receives (return value or exception)
    trace,          \* the calls issued so far, in order
    snapshots,      \* the job status snapshots received by the polls so far
    http_in,        \* http_call: the outcome of session.request given to the call
    http_out,       \* http_call: what the call returned or raised
    df,             \* the DataFrame given to df_to_azmltable / params_df_to_params_dict
    swagger,        \* df_to_azmltable: the swagger flag (row-oriented wire table)
    azt,            \* the AzureML table built by df_to_azmltable
    df2,            \* what azmltable_to_df / params_df_to_params_dict / csv_to_df returned or raised
    csv,            \* the CSV text written by df_to_csv, as its fields
    blob_args,      \* create_blob_refs / dfs_to_blob_refs / csvs_to_blob_refs / execute_bes: the arguments of the call, and the number of uploads it has made
    blob_refs,      \* what that call returned or raised; in execute_bes, input_refs
    storage,        \* the blobs that the blob storage service holds
    clock,          \* datetime.now(): the microsecond the system clock shows
    calls,          \* push_inputs_to_blob__and__create_output_references: the locals of each running call
    body_args,      \* create_request_body, azml_json_serializer: the function called and its arguments
    body,           \* create_request_body (in execute_bes too), azml_json_serializer: the value returned, or the exception raised
    resp_args,      \* read_response_json_body: the arguments body_json and output_names
    resp_out,       \* read_response_json_body: the dictionary returned, or the exception raised
    current_call_mode,  \* AzureMLClient: the attribute _current_call_mode
    local_impl,     \* AzureMLClient: the attribute _local_impl
    init_local_impl,  \* AzureMLClient: what __init_local_impl__ of the client's class does
    with_blocks,    \* the with-blocks of call_mode that are open, innermost last, each with its local previous_mode
    raising,        \* the exception that propagates in the code using the client
    client_log      \* what the client did so far: blocks left, services run

vars == <<pc, json_job_id, outputs_refs2, pending, outcome, trace, snapshots,
          http_in, http_out, df, swagger, azt, df2, csv,
          blob_args, blob_refs, storage,
          clock, calls,
          body_args, body,
          resp_args, resp_out, current_call_mode, local_impl, init_local_impl, with_blocks, raising, client_log>>

batch_vars == <<pc, json_job_id, outputs_refs2, pending, outcome, trace, snapshots>>
batch_rest == <<json_job_id, outputs_refs2, pending, outcome, trace, snapshots>>
http_vars == <<http_in, http_out>>
codec_vars == <<df, swagger, azt, df2>>
blob_vars == <<blob_args, blob_refs, storage>>
more_vars == <<csv, blob_args, blob_refs, storage, clock, calls, body_args, body, resp_args, resp_out, current_call_mode, local_impl, init_local_impl, with_blocks, raising, client_log>>
push_vars == <<clock, calls>>
body_vars == <<body_args, body>>
resp_vars == <<resp_args, resp_out>>
client_vars == <<current_call_mode, local_impl, init_local_impl, with_blocks, raising, client_log>>
except_csv == <<blob_vars, push_vars, body_vars, resp_vars, client_vars>>
except_blob == <<csv, push_vars, body_vars, resp_vars, client_vars>>
except_push == <<csv, blob_args, blob_refs, body_vars, resp_vars, client_vars>>
except_body == <<csv, blob_vars, push_vars, resp_vars, client_vars>>
except_resp == <<csv, blob_vars, push_vars, body_vars, client_vars>>
except_client == <<csv, blob_vars, push_vars, body_vars, resp_vars>>

(***************************************************************************)
(* Bounds of the model.                                                    *)
(***************************************************************************)
\* the number of polls one modelled run may issue (the code has no bound)
MaxPolls == 3

(***************************************************************************)
(* Results of calls and exceptions.                                        *)
(***************************************************************************)
None == "None"

NoErr == [type |-> "none", msg |-> "", at |-> "none"]

Ok(v) == [ok |-> TRUE, val |-> v]

Raise(type, msg) == [ok |-> FALSE, err |-> [type |-> type, msg |-> msg, at |-> "none"]]

\* the result slot of a call that was not made yet
NotCalled == [ok |-> FALSE, err |-> NoErr]

\* the exception e as raised by the call issued at site `where`
RaisedAt(e, where) == [e EXCEPT !.at = where]

(***************************************************************************)
(* AzmlException: decoding of the JSON body of an HTTP error response.     *)
(***************************************************************************)
\* A key of a JSON error body is an optional value: [has, val], has = FALSE
\* when the key is missing from the object (its lookup raises KeyError).
Absent(default) == [has |-> FALSE, val |-> default]
Present(v) == [has |-> TRUE, val |-> v]

\* The parsed body tells the kind of JSON text it was (json: object, array,
\* string, number, null, or invalid when json.loads cannot read the text),
\* and its keys "error" and "details" the kind of JSON value they hold; val
\* is the value of an object or an array, a string stands for a non-empty one.
Missing(default) == [has |-> FALSE, json |-> "missing", val |-> default]
Holds(kind, v) == [has |-> TRUE, json |-> kind, val |-> v]

\* obj['key'] on a value that is no dict and obj[0]['key'] on one that is no
\* list: the TypeError that Python raises for the class of obj
NotSubscriptable(kind) ==
    Raise("TypeError",
          IF kind = "string" THEN "string indices must be integers, not 'str'"
          ELSE IF kind = "array" THEN "list indices must be integers or slices, not str"
          ELSE IF kind = "null" THEN "'NoneType' object is not subscriptable"
          ELSE "'int' object is not subscriptable")

\* json_to_azmltable on a text that is not JSON
JsonDecodeError == Raise("JSONDecodeError", "Expecting value: line 1 column 1 (char 0)")

\* AzmlException.__init__ using the detail only when it is the single element
\* of the details list
AzmlException_SingleDetail(error_as_dict) ==
    IF error_as_dict.json = "invalid"
    THEN JsonDecodeError
    ELSE IF error_as_dict.json # "object"
    THEN NotSubscriptable(error_as_dict.json)
    ELSE IF ~error_as_dict.error.has
    THEN Raise("ValueError", "Unrecognized format for AzureML http error")
    ELSE IF error_as_dict.error.json # "object"
    THEN NotSubscriptable(error_as_dict.error.json)
    ELSE IF \/ ~error_as_dict.error.val.code.has
            \/ ~error_as_dict.error.val.message.has
            \/ ~error_as_dict.details.has
    THEN Raise("ValueError", "Unrecognized format for AzureML http error")
    ELSE IF error_as_dict.details.json \in {"string", "number", "null"}
    THEN NotSubscriptable(error_as_dict.details.json)
    ELSE LET error_code == error_as_dict.error.val.code.val
             error_message == error_as_dict.error.val.message.val
             details == error_as_dict.details.val
         IN IF \/ error_as_dict.details.json = "object"
               \/ Len(details) # 1
               \/ ~details[1].code.has
               \/ ~details[1].message.has
            THEN Raise("AzmlException",
                       "Error [" \o error_code \o "]: " \o error_message)
            ELSE Raise("AzmlException",
                       "Error [" \o error_code \o "][" \o details[1].code.val \o "]: "
                           \o error_message \o ". " \o details[1].message.val)

\* AzmlException.__init__ on the parsed body error_as_dict: the exception the
\* constructor leaves the caller with: itself, the ValueError it raises for a
\* missing key (KeyError), or the error it does not catch: the JSONDecodeError
\* of json.loads and the TypeError of a lookup in a value that is no dict or
\* no list; details[0] of a dict raises KeyError and gives the short message
AzmlException(error_as_dict) ==
    IF error_as_dict.json = "invalid"
    THEN JsonDecodeError
    ELSE IF error_as_dict.json # "object"
    THEN NotSubscriptable(error_as_dict.json)
    ELSE IF ~error_as_dict.error.has
    THEN Raise("ValueError", "Unrecognized format for AzureML http error")
    ELSE IF error_as_dict.error.json # "object"
    THEN NotSubscriptable(error_as_dict.error.json)
    ELSE IF \/ ~error_as_dict.error.val.code.has
            \/ ~error_as_dict.error.val.message.has
            \/ ~error_as_dict.details.has
    THEN Raise("ValueError", "Unrecognized format for AzureML http error")
    ELSE IF error_as_dict.details.json \in {"string", "number", "null"}
    THEN NotSubscriptable(error_as_dict.details.json)
    ELSE LET error_code == error_as_dict.error.val.code.val
             error_message == error_as_dict.error.val.message.val
             details == error_as_dict.details.val
         IN IF \/ error_as_dict.details.json = "object"
               \/ Len(details) = 0
               \/ ~details[1].code.has
               \/ ~details[1].message.has
            THEN Raise("AzmlException",
                       "Error [" \o error_code \o "]: " \o error_message)
            ELSE Raise("AzmlException",
                       "Error [" \o error_code \o "][" \o details[1].code.val \o "]: "
                           \o error_message \o ". " \o details[1].message.val)

(***************************************************************************)
(* BaseHttpClient: the HTTP transport.  A response of session.request is   *)
(* [conn, status, text]: conn is FALSE when no response came back (the     *)
(* connection failed), text is the parsed body.                            *)
(***************************************************************************)
\* raise_for_status raising for the client errors only
RaisesForStatus_ClientOnly(status) == status >= 400 /\ status < 500

\* requests' Response.raise_for_status raises HTTPError for these codes only
RaisesForStatus(status) == status >= 400 /\ status < 600

\* BaseHttpClient.http_call
HttpCall(response) ==
    IF ~response.conn
    THEN Raise("ConnectionError", "")
    ELSE IF RaisesForStatus(response.status)
         THEN AzmlException(response.text)
         ELSE Ok(response.text)

\* BaseHttpClient.azureml_http_call: headers and body encoding, then http_call
AzuremlHttpCall(response) == HttpCall(response)

(***************************************************************************)
(* BatchClient: the job-control calls.                                     *)
(***************************************************************************)
\* the body of a create response is the job id, possibly a JSON-quoted string:
\* [quoted, id] stands for the text id or "id"
ExecuteBatchCreateJob(response) ==
    LET jsonJobId == AzuremlHttpCall(response)
    IN IF jsonJobId.ok THEN Ok(jsonJobId.val.id) ELSE jsonJobId

ExecuteBatchStartJob(response) ==
    LET r == AzuremlHttpCall(response)
    IN IF r.ok THEN Ok(None) ELSE r

ExecuteBatchGetJobStatusOrResult(response) == AzuremlHttpCall(response)

ExecuteBatchDeleteJob(response) ==
    LET r == AzuremlHttpCall(response)
    IN IF r.ok THEN Ok(None) ELSE r

\* read_status_or_result_static with non-null Results tested before the codes
ReadStatusOrResult_ResultsFirst(result_dict) ==
    IF "StatusCode" \notin DOMAIN result_dict \/ "Results" \notin DOMAIN result_dict
    THEN Raise("ValueError", "Error reading job state")
    ELSE IF result_dict.Results # None
    THEN Ok(result_dict.Results)
    ELSE IF result_dict.StatusCode \in {"0", "NotStarted", "1", "Running", "4", "Finished"}
    THEN Ok(None)
    ELSE Raise("IllegalJobStateException", "The job state is " \o result_dict.StatusCode)

\* BatchClient.read_status_or_result_static on the parsed snapshot result_dict
ReadStatusOrResult(result_dict) ==
    IF "StatusCode" \notin DOMAIN result_dict
    THEN Raise("ValueError", "Error reading job state")
    ELSE LET status_code == result_dict.StatusCode
         IN IF status_code \in {"3", "Cancelled"}
            THEN Raise("IllegalJobStateException",
                       "The job state is '" \o status_code \o "' : cannot read the outcome")
            ELSE IF status_code \in {"2", "Failed"}
            THEN IF "Details" \notin DOMAIN result_dict
                 THEN Raise("ValueError", "Error reading job state")
                 ELSE Raise("JobExecutionException",
                            "The job ended with an error : " \o result_dict.Details)
            ELSE IF status_code \in {"0", "NotStarted", "1", "Running", "4", "Finished"}
            THEN IF "Results" \notin DOMAIN result_dict
                 THEN Raise("ValueError", "Error reading job state")
                 ELSE Ok(result_dict.Results)
            ELSE Raise("IllegalJobStateException",
                       "The job state is " \o status_code \o " : unknown state")

(***************************************************************************)
(* DataFrames and AzureML tables (base_databinding.py).                    *)
(*                                                                         *)
(* A cell is [k, v]: its type k (int, float, bool, str, datetime, null)    *)
(* and the text v that csv.writer writes for it, e.g. [k |-> "str",        *)
(* v |-> "1"] is the string "1" and [k |-> "int", v |-> "1"] the integer   *)
(* 1.  The nulls are NaN, None and NaT.  A DataFrame is [columns, dtypes,  *)
(* rows], with the default index 0..n-1.  An AzureML table is              *)
(* [list, rows, ColumnNames, Values]: in swagger format a list of rows,    *)
(* each an ordered dict given as a sequence of [name, value] items; else   *)
(* a dict whose keys ColumnNames and Values may be missing.                *)
(***************************************************************************)
NaN == [k |-> "null", v |-> "nan"]
NoneCell == [k |-> "null", v |-> ""]
NaT == [k |-> "null", v |-> "NaT"]

DataFrame(columns, dtypes, rows) == [columns |-> columns, dtypes |-> dtypes, rows |-> rows]

\* pandas.DataFrame(columns=col_names) with the column names left out
EmptyDataFrame_NoColumns(col_names) == DataFrame(<<>>, <<>>, <<>>)

\* pandas.DataFrame(columns=col_names): no row, columns of dtype object
EmptyDataFrame(col_names) ==
    DataFrame(col_names, [j \in 1..Len(col_names) |-> "object"], <<>>)

SwaggerTable(rows) ==
    [list |-> TRUE, rows |-> rows, ColumnNames |-> Absent(<<>>), Values |-> Absent(<<>>)]

NonSwaggerTable(col_names, values) ==
    [list |-> FALSE, rows |-> <<>>, ColumnNames |-> col_names, Values |-> values]

\* the dtype of df.values: the common dtype of the columns; timezone-aware
\* datetime columns give an array of objects, the Timestamps
CommonDtype(dtypes) ==
    LET used == { dtypes[j] : j \in 1..Len(dtypes) }
    IN IF Cardinality(used) = 1 /\ used \subseteq {"int64", "float64", "bool", "datetime64[ns]"}
       THEN dtypes[1]
       ELSE IF used # {} /\ used \subseteq {"int64", "float64"}
       THEN "float64"
       ELSE "object"

\* str(float(text)) for the text of an integer: the text of the float that
\* an integer is turned into, for the integers tried
FloatRepr(text) ==
    IF text = "1577836800000000000" THEN "1.5778368e+18"
    ELSE IF text = "1577923200000000000" THEN "1.5779232e+18"
    ELSE text \o ".0"

\* the nanoseconds since 1970 of a naive datetime, for the datetimes tried
EpochNanoseconds(v) ==
    IF v = "2020-01-01 00:00:00" THEN "1577836800000000000" ELSE "1577923200000000000"

\* a cell of df.values.tolist(): an integer of a float64 array is a float;
\* tolist() on a datetime64[ns] array gives the nanoseconds since 1970 as
\* integers, and None for NaT
CastCell(cell, common) ==
    IF common = "float64" /\ cell.k = "int"
    THEN [k |-> "float", v |-> FloatRepr(cell.v)]
    ELSE IF common = "datetime64[ns]"
    THEN IF cell.k = "datetime" THEN [k |-> "int", v |-> EpochNanoseconds(cell.v)] ELSE NoneCell
    ELSE cell

\* df.values.tolist()
ValuesToList(frame) ==
    LET common == CommonDtype(frame.dtypes)
    IN [i \in 1..Len(frame.rows) |->
          [j \in 1..Len(frame.columns) |-> CastCell(frame.rows[i][j], common)]]

\* df_to_azmltable, mimic_azml_output = False
DfToAzmltable(frame, swagger_format) ==
    LET col_names == frame.columns
    IN IF swagger_format
       THEN SwaggerTable([i \in 1..Len(frame.rows) |->
                [j \in 1..Len(col_names) |-> [name |-> col_names[j], value |-> frame.rows[i][j]]]])
       ELSE NonSwaggerTable(Present(col_names), Present(ValuesToList(frame)))

(***************************************************************************)
(* The CSV buffer of azmltable_to_df and its reading by csv_to_df.  The    *)
(* buffer is kept as its fields: the header and the text of every cell.    *)
(***************************************************************************)
\* the texts pandas.read_csv reads as integers, floats, booleans and missing
\* values, and those pandas.to_datetime reads as dates
IntTexts == {"1", "2", "1577836800000000000", "1577923200000000000"}
FloatTexts == {"1.0", "2.0", "1.5", "1.5778368e+18", "1.5779232e+18"}
BoolTexts == {"True", "False"}
NATexts == {"", "nan"}
DateTexts ==
    {"2020-01-01 00:00:00+00:00", "2020-01-02 00:00:00+00:00", "NaT",
     "2020-01-01 00:00:00", "2020-01-01 01:00:00+01:00",
     "2020-01-01T00:00:00.000+0000", "2020-01-02T00:00:00.000+0000",
     "2020-01-01T00:00:00.000", "2020-01-01T01:00:00.000+0100"}

\* writer.writerows([col_names]); writer.writerows(values): every value is
\* written as str(value), None as the empty string
WriteCsv(col_names, values) ==
    [header |-> col_names,
     lines |-> [i \in 1..Len(values) |-> [j \in 1..Len(values[i]) |-> values[i][j].v]]]

\* pandas.read_csv on one column of fields: the dtype it infers and the cells
ReadColumn(texts) ==
    LET given == { texts[i] : i \in 1..Len(texts) } \ NATexts
        hasNA == \E i \in 1..Len(texts) : texts[i] \in NATexts
        cells(kind) == [i \in 1..Len(texts) |->
                          IF texts[i] \in NATexts THEN NaN
                          ELSE [k |-> kind, v |-> texts[i]]]
        floats == [i \in 1..Len(texts) |->
                          IF texts[i] \in NATexts THEN NaN
                          ELSE [k |-> "float",
                                v |-> IF texts[i] \in IntTexts THEN FloatRepr(texts[i]) ELSE texts[i]]]
    IN IF Len(texts) = 0 THEN [dtype |-> "object", cells |-> <<>>]
       ELSE IF given = {} THEN [dtype |-> "float64", cells |-> floats]
       ELSE IF given \subseteq IntTexts /\ ~hasNA THEN [dtype |-> "int64", cells |-> cells("int")]
       ELSE IF given \subseteq IntTexts \cup FloatTexts THEN [dtype |-> "float64", cells |-> floats]
       ELSE IF given \subseteq BoolTexts /\ ~hasNA THEN [dtype |-> "bool", cells |-> cells("bool")]
       ELSE IF given \subseteq BoolTexts THEN [dtype |-> "object", cells |-> cells("bool")]
       ELSE [dtype |-> "object", cells |-> cells("str")]

\* The text of a Timestamp is str(value): "YYYY-MM-DD HH:MM:SS", then the
\* fraction of a second if it is not zero, then the offset "+HH:MM" if the
\* value is timezone-aware.
HasZone(v) == Len(v) >= 25 /\ SubSeq(v, Len(v) - 5, Len(v) - 5) = "+"

Zone(v) == IF HasZone(v) THEN SubSeq(v, Len(v) - 5, Len(v)) ELSE ""

\* strftime('%Y-%m-%dT%H:%M:%S.000%z'): the fraction of a second is not
\* written, the offset is written without its colon
Strftime(v) ==
    SubSeq(v, 1, 10) \o "T" \o SubSeq(v, 12, 19) \o ".000"
        \o (IF HasZone(v) THEN "+" \o SubSeq(v, Len(v) - 4, Len(v) - 3) \o SubSeq(v, Len(v) - 1, Len(v))
            ELSE "")

\* pandas.to_datetime on one text: the Timestamp read, as its text; the texts
\* are those Strftime writes and those that are the text of a Timestamp
ParseDate(text) ==
    IF Len(text) >= 23 /\ SubSeq(text, 11, 11) = "T"
    THEN SubSeq(text, 1, 10) \o " " \o SubSeq(text, 12, 19)
             \o (IF Len(text) = 28
                 THEN "+" \o SubSeq(text, 25, 26) \o ":" \o SubSeq(text, 27, 28)
                 ELSE "")
    ELSE text

Hours == <<"00", "01", "02", "03", "04", "05", "06", "07", "08", "09", "10", "11">>

HourNumber(hh) == CHOOSE h \in 1..Len(Hours) : Hours[h] = hh

\* tz_convert(tz="UTC") of an aware Timestamp; the offsets are whole hours
\* and the values tried stay within their day
TzConvertUTC(v) ==
    IF Zone(v) = "+00:00"
    THEN v
    ELSE SubSeq(v, 1, 11)
             \o Hours[HourNumber(SubSeq(v, 12, 13)) - HourNumber(SubSeq(v, Len(v) - 4, Len(v) - 3)) + 1]
             \o SubSeq(v, 14, Len(v) - 6) \o "+00:00"

\* tz_localize(tz="UTC") of a naive Timestamp
TzLocalizeUTC(v) == v \o "+00:00"

\* convert_all_datetime_columns on one column: an object column whose values
\* all parse as dates, with one offset, becomes a datetime column
ToDatetimeColumn(col) ==
    LET given == { col.cells[i] : i \in 1..Len(col.cells) } \ {NaN}
        dates == { ParseDate(c.v) : c \in { g \in given : g.v # "NaT" } }
        zones == { Zone(d) : d \in dates }
    IN IF /\ col.dtype = "object"
          /\ \A c \in given : c.k = "str" /\ c.v \in DateTexts
          /\ Cardinality(zones) <= 1
       THEN [dtype |-> IF zones \subseteq {""} THEN "datetime64[ns]"
                       ELSE IF zones = {"+00:00"} THEN "datetime64[ns, UTC]"
                       ELSE "datetime64[ns, pytz.FixedOffset(60)]",
             cells |-> [i \in 1..Len(col.cells) |->
                          IF col.cells[i] = NaN \/ col.cells[i].v = "NaT"
                          THEN NaT
                          ELSE [k |-> "datetime", v |-> ParseDate(col.cells[i].v)]]]
       ELSE col

\* localize_all_datetime_columns that only declares the naive columns as UTC
LocalizeDatetimeColumn_NaiveOnly(col) ==
    IF col.dtype = "datetime64[ns]"
    THEN [dtype |-> "datetime64[ns, UTC]",
          cells |-> [i \in 1..Len(col.cells) |->
                       IF col.cells[i].k = "null" THEN NaT
                       ELSE [k |-> "datetime", v |-> TzLocalizeUTC(col.cells[i].v)]]]
    ELSE col

\* localize_all_datetime_columns on one column: tz_localize on a naive
\* column, and tz_convert on an aware one, for which tz_localize raises
LocalizeDatetimeColumn(col) ==
    IF col.dtype \in {"datetime64[ns]", "datetime64[ns, UTC]", "datetime64[ns, pytz.FixedOffset(60)]"}
    THEN [dtype |-> "datetime64[ns, UTC]",
          cells |-> [i \in 1..Len(col.cells) |->
                       IF col.cells[i].k = "null" THEN NaT
                       ELSE [k |-> "datetime",
                             v |-> IF col.dtype = "datetime64[ns]"
                                   THEN TzLocalizeUTC(col.cells[i].v)
                                   ELSE TzConvertUTC(col.cells[i].v)]]]
    ELSE col

\* csv_to_df without the conversion of the datetime columns
ConvertDatetimeColumn_Never(col) == col

\* convert_all_datetime_columns then localize_all_datetime_columns on one
\* column: an object column whose values all parse as dates becomes a
\* datetime column in UTC, any other column is left as it is
ConvertDatetimeColumn(col) == LocalizeDatetimeColumn(ToDatetimeColumn(col))

\* csv_to_df on the buffer
CsvToDf(buffer) ==
    LET n == Len(buffer.header)
        col(j) == ConvertDatetimeColumn(
                      ReadColumn([i \in 1..Len(buffer.lines) |-> buffer.lines[i][j]]))
    IN DataFrame(buffer.header,
                 [j \in 1..n |-> col(j).dtype],
                 [i \in 1..Len(buffer.lines) |-> [j \in 1..n |-> col(j).cells[i]]])

\* df.to_csv(na_rep='', index=False, date_format='%Y-%m-%dT%H:%M:%S.000%z'):
\* one field of the text
CsvField(cell) ==
    IF cell.k = "null" THEN ""
    ELSE IF cell.k = "datetime" THEN Strftime(cell.v)
    ELSE cell.v

\* df_to_csv: the header line, then one line for each row
DfToCsv(frame) ==
    [header |-> frame.columns,
     lines |-> [i \in 1..Len(frame.rows) |->
                  [j \in 1..Len(frame.columns) |-> CsvField(frame.rows[i][j])]]]

\* an ordered dict, as its items: its keys, and the value of a key it has
Keys(row) == { row[j].name : j \in 1..Len(row) }
Get(row, key) == (CHOOSE item \in { row[j] : j \in 1..Len(row) } : item.name = key).value

\* the test `len(row) > len(col_names)` never finding a new column
HasNewColumns_Never(row, col_names) == FALSE

\* azmltable_to_df: the test for columns that the first row does not have
HasNewColumns(row, col_names) == Len(row) > Len(col_names)

\* azmltable_to_df: [row[k] for k in col_names] raises KeyError for these columns
MissingColumns(row, col_names) ==
    { j \in 1..Len(col_names) : col_names[j] \notin Keys(row) }

\* azmltable_to_df: the table built from col_names and values; read_csv raises
\* EmptyDataError on a buffer of empty lines, which is what rows without any
\* column are written as
BuildDf(col_names, values) ==
    IF Len(values) > 0
    THEN IF Len(col_names) = 0
         THEN Raise("EmptyDataError", "No columns to parse from file")
         ELSE Ok(CsvToDf(WriteCsv(col_names, values)))
    ELSE Ok(EmptyDataFrame(col_names))

\* azmltable_to_df, is_azml_output = False; the message about new columns goes
\* on with the set of these columns
AzmltableToDf(azmltable) ==
    IF azmltable.list
    THEN IF Len(azmltable.rows) > 0
         THEN LET first == azmltable.rows[1]
                  col_names == [j \in 1..Len(first) |-> first[j].name]
                  bad(i) == \/ MissingColumns(azmltable.rows[i], col_names) # {}
                            \/ HasNewColumns(azmltable.rows[i], col_names)
              IN IF \E i \in 1..Len(azmltable.rows) : bad(i)
                 THEN LET i == CHOOSE i \in 1..Len(azmltable.rows) :
                                  bad(i) /\ \A h \in 1..(i - 1) : ~bad(h)
                          missing == MissingColumns(azmltable.rows[i], col_names)
                      IN IF missing # {}
                         THEN LET j == CHOOSE j \in missing : \A h \in missing : j <= h
                              IN Raise("ValueError",
                                       "A column is missing in row #" \o ToString(i)
                                           \o ": '" \o col_names[j] \o "'")
                         ELSE Raise("ValueError",
                                    "Columns are present in row #" \o ToString(i)
                                        \o " but not in the first row")
                 ELSE BuildDf(col_names,
                              [i \in 1..Len(azmltable.rows) |->
                                 [j \in 1..Len(col_names) |->
                                    Get(azmltable.rows[i], col_names[j])]])
         ELSE BuildDf(<<>>, <<>>)
    ELSE IF azmltable.ColumnNames.has /\ azmltable.Values.has
         THEN BuildDf(azmltable.ColumnNames.val, azmltable.Values.val)
         ELSE Raise("ValueError",
                    "object should be a list or a dictionary with two fields ColumnNames and Values")

\* params_df_to_params_dict: params_df.at[0, param_name] for every column
ParamsDfToParamsDict(params_df) ==
    IF Len(params_df.columns) > 0 /\ Len(params_df.rows) = 0
    THEN Raise("KeyError", "0")
    ELSE Ok([j \in 1..Len(params_df.columns) |->
                [name |-> params_df.columns[j], value |-> params_df.rows[1][j]]])


(***************************************************************************)
(* What the remote service may answer.                                     *)
(***************************************************************************)
Detail1 == [code |-> Present("D1"), message |-> Present("detail")]

\* the JSON object {"code": code, "message": message, "details": details}
ErrorObject(code, message, details) ==
    [code |-> code, message |-> message, details |-> details]

\* the JSON body {"error": error, "details": details}
ErrorBody(error, details) == [json |-> "object", error |-> error, details |-> details]

NoErrorObject == ErrorObject(Absent(""), Absent(""), Absent(<<>>))

\* a body that is no JSON object: an array, a string, a number, null, or a
\* text that is not JSON
NonObjectBody(kind) ==
    [json |-> kind, error |-> Missing(NoErrorObject), details |-> Missing(<<>>)]

\* an error body with `details` beside `error`, and one with `details` inside it
BodyDetailsBeside ==
    ErrorBody(Holds("object", ErrorObject(Present("E1"), Present("bad"), Absent(<<>>))),
              Holds("array", <<Detail1>>))
BodyDetailsInside ==
    ErrorBody(Holds("object", ErrorObject(Present("E1"), Present("bad"), Present(<<Detail1>>))),
              Missing(<<>>))

ConnectionFailure == [conn |-> FALSE, status |-> 0, text |-> [raw |-> ""]]

FailedResponses ==
    { ConnectionFailure,
      [conn |-> TRUE, status |-> 400, text |-> BodyDetailsBeside],
      [conn |-> TRUE, status |-> 503, text |-> BodyDetailsInside] }

CreateResponses ==
    { [conn |-> TRUE, status |-> 200, text |-> [quoted |-> q, id |-> "job1"]] : q \in BOOLEAN }
        \cup FailedResponses

EmptyResponses == { [conn |-> TRUE, status |-> 200, text |-> [raw |-> ""]] } \cup FailedResponses

InProgressCodes == {"0", "NotStarted", "1", "Running", "4", "Finished"}
StatusCodes == InProgressCodes \cup {"2", "Failed", "3", "Cancelled", "99"}

\* job status snapshots: every code with null and non-null Results, the codes
\* of a job in progress with Results an empty dict (written "{}"), plus
\* snapshots that lack one of the keys
Snapshots ==
    [StatusCode : StatusCodes, Results : {None, "R1"}, Details : {None}]
        \cup [StatusCode : InProgressCodes, Results : {"{}"}, Details : {None}]
        \cup [StatusCode : {"2", "Failed"}, Results : {None, "R1"}, Details : {"boom"}]
        \cup { [Results |-> None, Details |-> None],
               [StatusCode |-> "Failed", Results |-> None],
               [StatusCode |-> "Running", Details |-> None] }

PollResponses ==
    { [conn |-> TRUE, status |-> 200, text |-> s] : s \in Snapshots } \cup FailedResponses

(***************************************************************************)
(* Blob references (base_databinding_blobs.py).  A dict is a function of   *)
(* its keys; a blob of the storage is [container, name].                   *)
(***************************************************************************)
\* the number of names given to one call
MaxNames == 2

UpperCase == "ABCDEFGHIJKLMNOPQRSTUVWXYZ"
LowerCase == "abcdefghijklmnopqrstuvwxyz"

\* str.lower on one character
LowerChar(c) ==
    IF \E i \in 1..Len(UpperCase) : SubSeq(UpperCase, i, i) = c
    THEN LET i == CHOOSE i \in 1..Len(UpperCase) : SubSeq(UpperCase, i, i) = c
         IN SubSeq(LowerCase, i, i)
    ELSE c

\* s.lower().endswith(suffix)
LowerEndsWith(s, suffix) ==
    /\ Len(s) >= Len(suffix)
    /\ \A i \in 1..Len(suffix) :
          LowerChar(SubSeq(s, Len(s) - Len(suffix) + i, Len(s) - Len(suffix) + i))
              = SubSeq(suffix, i, i)

\* s.endswith(suffix)
EndsWith(s, suffix) ==
    Len(s) >= Len(suffix) /\ SubSeq(s, Len(s) - Len(suffix) + 1, Len(s)) = suffix

\* ch in s
Contains(s, ch) == \E i \in 1..Len(s) : SubSeq(s, i, i) = ch

\* _get_valid_blob_path_prefix
GetValidBlobPathPrefix(blob_path_prefix) ==
    IF blob_path_prefix = None THEN ""
    ELSE IF Len(blob_path_prefix) > 0 /\ ~EndsWith(blob_path_prefix, "/")
    THEN blob_path_prefix \o "/"
    ELSE blob_path_prefix

\* _get_blob_service_connection_string
ConnectionString == "DefaultEndpointsProtocol=https;AccountName=acc;AccountKey=key"

\* create_blob_ref with a name that keeps its .csv suffix
FixBlobName_Keep(blob_name) == blob_name

\* create_blob_ref: the blob name without its .csv suffix
FixBlobName(blob_name) ==
    IF LowerEndsWith(blob_name, ".csv") THEN SubSeq(blob_name, 1, Len(blob_name) - 4) ELSE blob_name

\* create_blob_ref: the reference and the full name of the blob
CreateBlobRef(blob_container, blob_name, blob_path_prefix) ==
    LET blob_full_name == GetValidBlobPathPrefix(blob_path_prefix) \o FixBlobName(blob_name) \o ".csv"
    IN [output_ref |-> [ConnectionString |-> ConnectionString,
                        RelativeLocation |-> blob_container \o "/" \o blob_full_name],
        blob_full_name |-> blob_full_name]

\* create_blob_refs: one reference for each name, under the prefixed name
CreateBlobRefs(blob_container, blob_names, blob_path_prefix, blob_name_prefix) ==
    LET prefix == IF blob_name_prefix = None THEN "" ELSE blob_name_prefix
    IN Ok([blob_name \in { blob_names[i] : i \in 1..Len(blob_names) } |->
              CreateBlobRef(blob_container, prefix \o blob_name, blob_path_prefix).output_ref])

\* the blob that csv_to_blob_ref creates for this name
UploadedBlob(blob_container, blob_name, blob_path_prefix) ==
    [container |-> blob_container,
     name |-> CreateBlobRef(blob_container, blob_name, blob_path_prefix).blob_full_name]

\* csv_to_blob_ref for every name, one upload after the other in the order of
\* the dict: the blobs created and the result of the call.  failed_at is the
\* number of the upload at which create_blob_from_stream raises, 0 when none
\* does; the uploads made before it stay in the storage
UploadBlobs(blob_container, blob_names, blob_path_prefix, prefix, failed_at) ==
    LET made == IF failed_at \in 1..Len(blob_names) THEN failed_at - 1 ELSE Len(blob_names)
    IN [result |-> IF made < Len(blob_names)
                   THEN Raise("AzureException", "")
                   ELSE Ok([blob_name \in { blob_names[i] : i \in 1..Len(blob_names) } |->
                              CreateBlobRef(blob_container, prefix \o blob_name,
                                            blob_path_prefix).output_ref]),
        created |-> { UploadedBlob(blob_container, prefix \o blob_names[i], blob_path_prefix) :
                        i \in 1..made }]

\* csvs_to_blob_refs: an absent name prefix is the empty string
CsvsToBlobRefs(blob_container, blob_names, blob_path_prefix, blob_name_prefix, failed_at) ==
    UploadBlobs(blob_container, blob_names, blob_path_prefix,
                IF blob_name_prefix = None THEN "" ELSE blob_name_prefix, failed_at)

\* dfs_to_blob_refs: blob_name_prefix + blobName raises TypeError when the
\* name prefix is absent, before the first upload
DfsToBlobRefs(blob_container, blob_names, blob_path_prefix, blob_name_prefix, failed_at) ==
    IF Len(blob_names) > 0 /\ blob_name_prefix = None
    THEN [result |-> Raise("TypeError", "unsupported operand type(s) for +: 'NoneType' and 'str'"),
          created |-> {}]
    ELSE UploadBlobs(blob_container, blob_names, blob_path_prefix,
                     IF blob_name_prefix = None THEN "" ELSE blob_name_prefix, failed_at)

\* the names that a call has gone through when it waits for upload number
\* done + 1
NamesUpTo(blob_names, done) ==
    SubSeq(blob_names, 1, IF done + 1 < Len(blob_names) THEN done + 1 ELSE Len(blob_names))

\* one step of a call that uploads: it waits for upload number done + 1, and
\* it ends the call when that upload raises or was the last one.  part is the
\* call on the names gone through: the blobs created so far, and the result
\* of the call when the step ends it
UploadStep(part, blob_names, done) ==
    LET finished == ~part.result.ok \/ done + 1 >= Len(blob_names)
    IN [finished |-> finished,
        result |-> IF finished THEN part.result ELSE NotCalled,
        created |-> part.created]

\* now.strftime("%Y-%m-%d_%H%M%S_%f") for the microsecond us of one second
UniqueBlobNamePrefix(us) ==
    "2024-01-02_030405_" \o SubSeq("000000", 1, 6 - Len(ToString(us))) \o ToString(us)

(***************************************************************************)
(* The request bodies (base.py).  A dict of parameters is the sequence of  *)
(* its items; the arguments that are neither a dict, a DataFrame nor None  *)
(* are given by the name of their type.                                    *)
(***************************************************************************)
\* the value .at[0, name] of a column of this dtype: a numpy.bool_ for a
\* column of booleans, which json.dumps and azml_json_serializer do not accept
JsonSerializable(dtype) == dtype # "bool"

\* azmltable_to_json on a body whose parameters come from columns of these
\* dtypes: the body, as the dict that json.dumps writes
AzmltableToJson(body_dict, dtypes) ==
    IF \A j \in 1..Len(dtypes) : JsonSerializable(dtypes[j])
    THEN Ok(body_dict)
    ELSE Raise("TypeError", "Type not serializable")

\* create_request_body: the parameters, from params_df_or_dict
ParamsOf(params_df_or_dict) ==
    IF params_df_or_dict.shape = "none"
    THEN Ok([params |-> <<>>, dtypes |-> <<>>])
    ELSE IF params_df_or_dict.shape = "dict"
    THEN Ok([params |-> params_df_or_dict.items, dtypes |-> <<>>])
    ELSE IF params_df_or_dict.shape = "DataFrame"
    THEN LET r == ParamsDfToParamsDict(params_df_or_dict.df)
         IN IF r.ok THEN Ok([params |-> r.val, dtypes |-> params_df_or_dict.df.dtypes]) ELSE r
    ELSE Raise("TypeError", "paramsDfOrDict should be a DataFrame or a dictionary, or None, found: "
                                \o params_df_or_dict.shape)

\* dfs_to_azmltables, on the items of the dict
DfsToAzmltables(dfs) ==
    [i \in 1..Len(dfs) |-> [name |-> dfs[i].name, table |-> DfToAzmltable(dfs[i].df, FALSE)]]

\* RequestResponseClient.create_request_body
CreateRequestBodyRR(input_df_dict, params_df_or_dict) ==
    LET inputs == DfsToAzmltables(input_df_dict)
        p == ParamsOf(params_df_or_dict)
    IN IF p.ok
       THEN AzmltableToJson([Inputs |-> inputs, GlobalParameters |-> p.val.params], p.val.dtypes)
       ELSE p

\* BatchClient.create_request_body
CreateRequestBodyBatch(input_refs, params_df_or_dict, output_refs) ==
    LET p == ParamsOf(params_df_or_dict)
    IN IF p.ok
       THEN AzmltableToJson([Inputs |-> input_refs, GlobalParameters |-> p.val.params,
                             Outputs |-> output_refs], p.val.dtypes)
       ELSE p

(***************************************************************************)
(* execute_bes: one invocation of the batch driver.                        *)
(***************************************************************************)
Returned(v) == [kind |-> "return", val |-> v, err |-> NoErr]
Raised(e) == [kind |-> "raise", val |-> None, err |-> e]

\* a call that raised is issued again instead of entering the finally block
EnterFinally_Retry(e) == pending' = pending /\ pc' = pc

\* the finally block runs with exception e in flight (NoErr: none)
EnterFinally(e) == pending' = e /\ pc' = "finally"

\* the arguments of the invocations tried: the names of the inputs and of the
\* outputs, and params, a list being none of a dict, a DataFrame and None
DriverCalls ==
    [entry : {"execute_bes"}, inputs : { <<"data">>, <<"in1", "in2">> },
     output_names : { <<"out">> }, params : { [shape |-> "none"], [shape |-> "list"] },
     done : {0}]

\* step 1: push the inputs to blob storage, one step for each upload that
\* dfs_to_blob_refs waits for, which is made or raises; after the last upload
\* the output references are created and, step 2, the request body, which
\* raises TypeError on params of another type.  A failure here is before the
\* try block and leaves in the storage the blobs uploaded so far
PushInputs ==
    /\ pc = "push"
    /\ \E failed_at \in {0, blob_args.done + 1} :
          LET unique_blob_name_prefix == UniqueBlobNamePrefix(clock)
              step == UploadStep(DfsToBlobRefs("c", NamesUpTo(blob_args.inputs, blob_args.done),
                                               "p", unique_blob_name_prefix \o "-input-",
                                               failed_at),
                                 blob_args.inputs, blob_args.done)
              output_refs == CreateBlobRefs("c", blob_args.output_names, "p",
                                            unique_blob_name_prefix \o "-output-")
              request_body == CreateRequestBodyBatch(step.result.val, blob_args.params,
                                                     output_refs.val)
          IN /\ storage' = storage \cup step.created
             /\ blob_refs' = step.result
             /\ trace' = IF blob_args.done = 0 THEN Append(trace, "push") ELSE trace
             /\ IF ~step.finished
                THEN /\ blob_args' = [blob_args EXCEPT !.done = blob_args.done + 1]
                     /\ pc' = pc /\ outcome' = outcome /\ body' = body
                ELSE IF ~step.result.ok
                THEN /\ pc' = "done" /\ outcome' = Raised(RaisedAt(step.result.err, "push"))
                     /\ blob_args' = blob_args /\ body' = body
                ELSE /\ body' = request_body
                     /\ blob_args' = blob_args
                     /\ IF request_body.ok
                        THEN pc' = "create" /\ outcome' = outcome
                        ELSE pc' = "done"
                             /\ outcome' = Raised(RaisedAt(request_body.err, "push"))
    /\ UNCHANGED <<json_job_id, outputs_refs2, pending, snapshots, http_vars, codec_vars, csv,
                   clock, calls, body_args, resp_vars, client_vars>>

\* step 3 a): create the job
CreateJob ==
    /\ pc = "create"
    /\ \E response \in CreateResponses :
          LET r == ExecuteBatchCreateJob(response)
          IN /\ trace' = Append(trace, "create")
             /\ IF r.ok
                THEN json_job_id' = r.val /\ pc' = "start" /\ pending' = pending
                ELSE json_job_id' = json_job_id /\ EnterFinally(RaisedAt(r.err, "create"))
    /\ UNCHANGED <<outputs_refs2, outcome, snapshots, http_vars, codec_vars, more_vars>>

\* step 3 b): start the job
StartJob ==
    /\ pc = "start"
    /\ \E response \in EmptyResponses :
          LET r == ExecuteBatchStartJob(response)
          IN /\ trace' = Append(trace, "start")
             /\ IF r.ok
                THEN pc' = "poll" /\ pending' = pending
                ELSE EnterFinally(RaisedAt(r.err, "start"))
    /\ UNCHANGED <<json_job_id, outputs_refs2, outcome, snapshots, http_vars, codec_vars, more_vars>>

\* the loop test never letting the loop end
KeepPolling_Always(refs) == TRUE

\* the loop test as a truth test, `while not outputs_refs2`
KeepPolling_WhileFalsy(refs) == refs \in {None, "{}"}

\* the loop test of the polling loop, `while outputs_refs2 is None`
KeepPolling(refs) == refs = None

\* step 3 c) and e): poll the job status and read it
PollJob ==
    /\ pc = "poll"
    /\ Len(snapshots) < MaxPolls
    /\ \E response \in PollResponses :
          LET statusOrResult == ExecuteBatchGetJobStatusOrResult(response)
          IN /\ trace' = Append(trace, "poll")
             /\ IF ~statusOrResult.ok
                THEN /\ EnterFinally(RaisedAt(statusOrResult.err, "poll"))
                     /\ UNCHANGED <<outputs_refs2, snapshots>>
                ELSE LET r == ReadStatusOrResult(statusOrResult.val)
                     IN /\ snapshots' = Append(snapshots, statusOrResult.val)
                        /\ IF r.ok
                           THEN outputs_refs2' = r.val /\ pc' = "sleep" /\ pending' = pending
                           ELSE outputs_refs2' = outputs_refs2
                                /\ EnterFinally(RaisedAt(r.err, "poll"))
    /\ UNCHANGED <<json_job_id, outcome, http_vars, codec_vars, more_vars>>

\* the wait that ends each iteration of the polling loop, then the loop test
Sleep ==
    /\ pc = "sleep"
    /\ trace' = Append(trace, "sleep")
    /\ IF KeepPolling(outputs_refs2)
       THEN pc' = "poll" /\ pending' = pending
       ELSE EnterFinally(NoErr)
    /\ UNCHANGED <<json_job_id, outputs_refs2, outcome, snapshots, http_vars, codec_vars, more_vars>>

\* the finally block with its guard left out, and with its guard inverted
DeletesJob_Always(job_id) == TRUE
DeletesJob_Never(job_id) == job_id = None

\* the guard of the finally block
DeletesJob(job_id) == job_id # None

\* the finally block swallowing the exception in flight and that of delete
LeavesFinally_Swallow(inflight, deleted) == NoErr

\* the exception that leaves the finally block: the one in flight before it
\* (NoErr: none) and the result of the delete call
LeavesFinally(inflight, deleted) ==
    IF deleted.ok THEN inflight ELSE RaisedAt(deleted.err, "delete")

\* finally: delete the job, then let the exception in flight go on
DeleteJob ==
    /\ pc = "finally"
    /\ DeletesJob(json_job_id)
    /\ \E response \in EmptyResponses :
          LET e == LeavesFinally(pending, ExecuteBatchDeleteJob(response))
          IN /\ trace' = Append(trace, "delete")
             /\ IF e = NoErr
                THEN pc' = "retrieve" /\ outcome' = outcome
                ELSE pc' = "done" /\ outcome' = Raised(e)
    /\ UNCHANGED <<json_job_id, outputs_refs2, pending, snapshots, http_vars, codec_vars, more_vars>>

\* finally: no job id, nothing to delete
SkipDelete ==
    /\ pc = "finally"
    /\ ~DeletesJob(json_job_id)
    /\ IF pending = NoErr
       THEN pc' = "retrieve" /\ outcome' = outcome
       ELSE pc' = "done" /\ outcome' = Raised(pending)
    /\ UNCHANGED <<json_job_id, outputs_refs2, pending, trace, snapshots, http_vars, codec_vars, more_vars>>

\* step 4 reading the blobs that the job status names
RetrievedRefs_FromResults(output_refs, job_results) == job_results

\* step 4: the references whose blobs are read, blob_refs_to_dfs(output_refs);
\* the output of the job status is not used
RetrievedRefs(output_refs, job_results) == output_refs

\* step 4: retrieve the outputs from the blob storage, through output_refs
RetrieveOutputs ==
    /\ pc = "retrieve"
    /\ \E downloaded \in BOOLEAN :
          /\ trace' = Append(trace, "download")
          /\ outcome' = IF downloaded
                        THEN Returned(RetrievedRefs("output_refs", outputs_refs2))
                        ELSE Raised(RaisedAt(Raise("AzureException", "").err, "download"))
    /\ pc' = "done"
    /\ UNCHANGED <<json_job_id, outputs_refs2, pending, snapshots, http_vars, codec_vars, more_vars>>

\* the variables of the other operations, which an invocation leaves alone
BatchUnused ==
    /\ json_job_id = None
    /\ outputs_refs2 = None
    /\ pending = NoErr
    /\ outcome = [kind |-> "none", val |-> None, err |-> NoErr]
    /\ trace = <<>>
    /\ snapshots = <<>>

HttpUnused ==
    /\ http_in = ConnectionFailure
    /\ http_out = NotCalled

CodecUnused ==
    /\ df = DataFrame(<<>>, <<>>, <<>>)
    /\ swagger = FALSE
    /\ azt = SwaggerTable(<<>>)
    /\ df2 = NotCalled

\* an empty CSV text
NoCsv == [header |-> <<>>, lines |-> <<>>]

\* read_response_json_body was not called
RespUnused ==
    /\ resp_args = [reader |-> "none"]
    /\ resp_out = NotCalled

\* no client was created
ClientUnused ==
    /\ current_call_mode = None
    /\ local_impl = None
    /\ init_local_impl = None
    /\ with_blocks = <<>>
    /\ raising = NoErr
    /\ client_log = <<>>

MoreUnused ==
    /\ csv = NoCsv
    /\ blob_args = [entry |-> "none"]
    /\ blob_refs = NotCalled
    /\ storage = {}
    /\ clock = 0
    /\ calls = <<>>
    /\ body_args = [builder |-> "none"]
    /\ body = NotCalled
    /\ RespUnused
    /\ ClientUnused

Init ==
    /\ pc = "push"
    /\ json_job_id = None
    /\ outputs_refs2 = None
    /\ pending = NoErr
    /\ outcome = [kind |-> "none", val |-> None, err |-> NoErr]
    /\ trace = <<>>
    /\ snapshots = <<>>
    /\ HttpUnused
    /\ CodecUnused
    /\ csv = NoCsv
    /\ blob_args \in DriverCalls
    /\ blob_refs = NotCalled
    /\ storage = {}
    /\ clock = 0
    /\ calls = <<>>
    /\ body_args = [builder |-> "none"]
    /\ body = NotCalled
    /\ RespUnused
    /\ ClientUnused

Next ==
    \/ PushInputs
    \/ CreateJob
    \/ StartJob
    \/ PollJob
    \/ Sleep
    \/ DeleteJob
    \/ SkipDelete
    \/ RetrieveOutputs

Spec == Init /\ [][Next]_vars

(***************************************************************************)
(* Properties of the batch driver.                                         *)
(***************************************************************************)
Range(seq) == { seq[i] : i \in 1..Len(seq) }

Count(seq, x) == Cardinality({ i \in 1..Len(seq) : seq[i] = x })

IsJobCall(c) == c \in {"create", "start", "poll", "delete"}

\* the job-control calls of the trace, in order
JobCalls == SelectSeq(trace, IsJobCall)

Polls(k) == [i \in 1..k |-> "poll"]

\* the driver came out of the finally block with no exception in flight
RanToEnd == pc = "retrieve" \/ (pc = "done" /\ "download" \in Range(trace))

\* C1 as stated: in every finished invocation that issued create, whatever the
\* outcomes of create, start and the polls, delete was issued exactly once
C1_DeleteExactlyOnceAlways ==
    (pc = "done" /\ "create" \in Range(trace)) => Count(trace, "delete") = 1

\* C1 amended: delete is never issued twice, and a finished invocation that
\* issued create has issued delete exactly once when create returned a job id
\* and not at all when create raised
C1_DeleteOnceIffJobCreated ==
    /\ Count(trace, "delete") <= 1
    /\ (pc = "done" /\ "create" \in Range(trace))
          => Count(trace, "delete") = (IF pending.at = "create" THEN 0 ELSE 1)

\* the second poll raised a connection error and the job was deleted once
C1_Witness ==
    /\ pc = "done"
    /\ Len(snapshots) = 1
    /\ pending.type = "ConnectionError" /\ pending.at = "poll"
    /\ Count(trace, "delete") = 1

\* C2: when the job was created and start or a poll failed, the finished
\* invocation has issued delete exactly once, as its last call, and the caller
\* receives the error of start or of the poll
C2_OriginalErrorAfterDelete ==
    (pc = "done" /\ pending.at \in {"start", "poll"})
        => /\ Count(trace, "delete") = 1
           /\ trace[Len(trace)] = "delete"
           /\ outcome = Raised(pending)

\* C3: a failure of delete never replaces an error in flight, and after a run
\* with no error the driver still goes on to download the outputs
C3_DeleteFailureNeverFatal ==
    (pc = "done" /\ "delete" \in Range(trace))
        => /\ pending # NoErr => outcome = Raised(pending)
           /\ pending = NoErr => "download" \in Range(trace)

\* C4: on the happy path the snapshot of the last poll is the first one with
\* non-null Results, and the job-control calls are create, start, one poll per
\* snapshot, delete, in this order
C4_HappyPathCallOrder ==
    RanToEnd =>
        \E k \in 1..Len(snapshots) :
            /\ k = Len(snapshots)
            /\ snapshots[k].Results # None
            /\ \A j \in 1..(k - 1) : snapshots[j].Results = None
            /\ JobCalls = <<"create", "start">> \o Polls(k) \o <<"delete">>

\* NotStarted, Running, then Finished with Results: three polls, then delete
C4_Witness ==
    /\ RanToEnd
    /\ Len(snapshots) = 3
    /\ snapshots[1] = [StatusCode |-> "NotStarted", Results |-> None, Details |-> None]
    /\ snapshots[2] = [StatusCode |-> "Running", Results |-> None, Details |-> None]
    /\ snapshots[3] = [StatusCode |-> "Finished", Results |-> "R1", Details |-> None]
    /\ JobCalls = <<"create", "start", "poll", "poll", "poll", "delete">>

HasAllKeys(snapshot) == DOMAIN snapshot = {"StatusCode", "Results", "Details"}

\* C5: the last snapshot read is classified by its StatusCode: Cancelled and
\* unknown codes raise IllegalJobStateException, Failed raises
\* JobExecutionException with Details in its message, the other codes give
\* Results (null: poll again), whatever Results holds
C5_StatusCodeTable ==
    (Len(snapshots) > 0 /\ HasAllKeys(snapshots[Len(snapshots)])) =>
        LET last == snapshots[Len(snapshots)]
            code == last.StatusCode
        IN IF code \in {"3", "Cancelled"}
           THEN pending.at = "poll" /\ pending.type = "IllegalJobStateException"
                /\ outputs_refs2 = None
           ELSE IF code \in {"2", "Failed"}
           THEN pending.at = "poll" /\ pending.type = "JobExecutionException"
                /\ pending.msg = "The job ended with an error : " \o last.Details
                /\ outputs_refs2 = None
           ELSE IF code \in {"0", "NotStarted", "1", "Running", "4", "Finished"}
           THEN outputs_refs2 = last.Results
                /\ pending.type \notin {"IllegalJobStateException", "JobExecutionException"}
           ELSE pending.at = "poll" /\ pending.type = "IllegalJobStateException"
                /\ pending.msg = "The job state is " \o code \o " : unknown state"
                /\ outputs_refs2 = None

\* a Failed snapshot with non-null Results was read and raised
C5_Witness ==
    /\ Len(snapshots) > 0
    /\ snapshots[Len(snapshots)] = [StatusCode |-> "Failed", Results |-> "R1", Details |-> "boom"]
    /\ pending.type = "JobExecutionException"

(***************************************************************************)
(* http_call on its own: every outcome of session.request, with every      *)
(* shape of error body.                                                    *)
(***************************************************************************)
Detail2 == [code |-> Present("D2"), message |-> Present("other")]

\* the details lists: empty, one or two elements, elements lacking a key
DetailLists ==
    { <<>>, <<Detail1>>, <<Detail1, Detail2>>,
      <<[code |-> Present("D1"), message |-> Absent("")]>>,
      <<[code |-> Present("D1"), message |-> Absent("")], Detail2>>,
      <<[code |-> Absent(""), message |-> Present("detail")]>> }

Optional(values, default) == { Absent(default) } \cup { Present(v) : v \in values }

ErrorObjects ==
    { ErrorObject(c, m, d) :
        c \in Optional({"E1"}, ""), m \in Optional({"bad"}, ""),
        d \in Optional(DetailLists, <<>>) }

\* the kinds of JSON value that are no object
NonObjects == {"array", "string", "number", "null"}

\* the key "error": missing, an object, or a value that is no object, as in
\* {"error": "unauthorized"}
ErrorKeys ==
    { Missing(NoErrorObject) }
        \cup { Holds("object", e) : e \in ErrorObjects }
        \cup { Holds(kind, NoErrorObject) : kind \in NonObjects }

\* the key "details": missing, a list, or a value that is no list, as in
\* {"details": null} and {"details": {}}
DetailsKeys ==
    { Missing(<<>>) }
        \cup { Holds("array", d) : d \in DetailLists }
        \cup { Holds(kind, <<>>) : kind \in {"object", "string", "number", "null"} }

\* the bodies of the responses: the JSON objects and the bodies that are no
\* JSON object or no JSON at all
ErrorBodies ==
    { ErrorBody(e, d) : e \in ErrorKeys, d \in DetailsKeys }
        \cup { NonObjectBody(kind) : kind \in NonObjects \cup {"invalid"} }

HttpStatuses == {100, 200, 204, 299, 300, 304, 399, 400, 404, 499, 500, 503, 599}

HttpResponses ==
    { ConnectionFailure }
        \cup { [conn |-> TRUE, status |-> st, text |-> b] : st \in HttpStatuses, b \in ErrorBodies }

\* BaseHttpClient.http_call, applied to the outcome of session.request
DoHttpCall ==
    /\ pc = "http_call"
    /\ http_out' = HttpCall(http_in)
    /\ pc' = "http_done"
    /\ UNCHANGED <<batch_rest, http_in, codec_vars, more_vars>>

InitHttp ==
    /\ pc = "http_call"
    /\ BatchUnused
    /\ CodecUnused
    /\ http_in \in HttpResponses
    /\ http_out = NotCalled
    /\ MoreUnused

NextHttp == DoHttpCall

SpecHttp == InitHttp /\ [][NextHttp]_vars

Is2xx(status) == status >= 200 /\ status <= 299

\* the body {"error": {"code": "E1", "message": "bad", "details": details}}
NestedBody(details) ==
    ErrorBody(Holds("object", ErrorObject(Present("E1"), Present("bad"), Present(details))),
              Missing(<<>>))

\* C6: an HTTP error response (4xx, 5xx) whose body carries the details inside
\* the error object raises AzmlException with the message "Error [C][D]: M. N",
\* and "Error [C]: M" when the details list is empty
C6_NestedDetailsDecoded ==
    (pc = "http_done" /\ http_in.conn /\ RaisesForStatus(http_in.status)) =>
        /\ http_in.text = NestedBody(<<Detail1>>)
              => http_out = Raise("AzmlException", "Error [E1][D1]: bad. detail")
        /\ http_in.text = NestedBody(<<>>)
              => http_out = Raise("AzmlException", "Error [E1]: bad")

\* the classes of ValueError: json.JSONDecodeError is one of its subclasses
ValueErrors == {"ValueError", "JSONDecodeError"}

\* the kind of result the claim gives every outcome, `failing` being the
\* statuses that must fail
OneResultKind(failing(_)) ==
    pc = "http_done" =>
        IF ~http_in.conn
        THEN ~http_out.ok /\ http_out.err.type = "ConnectionError"
        ELSE IF Is2xx(http_in.status)
        THEN http_out = Ok(http_in.text)
        ELSE IF failing(http_in.status)
        THEN ~http_out.ok /\ http_out.err.type \in {"AzmlException"} \cup ValueErrors
        ELSE http_out = Ok(http_in.text)

Non2xx(status) == ~Is2xx(status)

Is4xx5xx(status) == status >= 400 /\ status <= 599

\* C7 as stated: a 2xx response returns the text, every response with a status
\* outside 200-299 raises AzmlException or ValueError, a connection failure
\* raises the connection error
C7_EveryNon2xxFails == OneResultKind(Non2xx)

\* the same with the 1xx and 3xx responses set apart, which return their
\* text: every response with a 4xx or 5xx status raises AzmlException or
\* ValueError
C7_Every4xx5xxFails == OneResultKind(Is4xx5xx)

\* a response that raise_for_status raises for left the caller with an error
\* that AzmlException.__init__ does not catch
C7_UncaughtTypeError ==
    /\ pc = "http_done"
    /\ http_in.conn /\ RaisesForStatus(http_in.status)
    /\ ~http_out.ok /\ http_out.err.type = "TypeError"

(***************************************************************************)
(* The table codec and the parameter codec on their own: a DataFrame is    *)
(* turned into an AzureML table and back, or into a parameter dict.        *)
(***************************************************************************)
\* the number of rows of the DataFrames tried
MaxRows == 2

ColumnLists == { <<"a">>, <<"a", "b">>, <<"b", "a">> }

Date1 == [k |-> "datetime", v |-> "2020-01-01 00:00:00+00:00"]
Date2 == [k |-> "datetime", v |-> "2020-01-02 00:00:00+00:00"]
DateNaive == [k |-> "datetime", v |-> "2020-01-01 00:00:00"]
DatePlus1 == [k |-> "datetime", v |-> "2020-01-01 01:00:00+01:00"]

\* the columns tried: a dtype and the cells a column of that dtype is made of;
\* the object columns hold strings, integers beside None, or integers
\* beside strings, the datetime columns are in UTC, without timezone, or
\* with the offset +01:00
ColumnPools ==
    { [dtype |-> "int64", cells |-> {[k |-> "int", v |-> "1"], [k |-> "int", v |-> "2"]}],
      [dtype |-> "float64", cells |-> {[k |-> "float", v |-> "1.5"], [k |-> "float", v |-> "2.0"], NaN}],
      [dtype |-> "bool", cells |-> {[k |-> "bool", v |-> "True"], [k |-> "bool", v |-> "False"]}],
      [dtype |-> "object",
       cells |-> {[k |-> "str", v |-> "abc"], [k |-> "str", v |-> "1"],
                  [k |-> "str", v |-> "True"], NoneCell}],
      [dtype |-> "object",
       cells |-> {[k |-> "str", v |-> "abc"], [k |-> "str", v |-> "2020-01-01 00:00:00+00:00"],
                  [k |-> "str", v |-> "nan"]}],
      [dtype |-> "object", cells |-> {[k |-> "int", v |-> "1"], NoneCell}],
      [dtype |-> "object", cells |-> {[k |-> "int", v |-> "1"], [k |-> "str", v |-> "abc"]}],
      [dtype |-> "datetime64[ns, UTC]", cells |-> {Date1, Date2, NaT}],
      [dtype |-> "datetime64[ns]", cells |-> {DateNaive, NaT}],
      [dtype |-> "datetime64[ns, pytz.FixedOffset(60)]", cells |-> {DatePlus1, NaT}] }

\* the columns of n rows
ColumnsOf(n) ==
    UNION { { [dtype |-> p.dtype, cells |-> c] : c \in [1..n -> p.cells] } : p \in ColumnPools }

DataFramesOf(columns, n) ==
    { DataFrame(columns,
                [j \in 1..Len(columns) |-> col[j].dtype],
                [i \in 1..n |-> [j \in 1..Len(columns) |-> col[j].cells[i]]]) :
        col \in [1..Len(columns) -> ColumnsOf(n)] }

DataFrames == UNION { DataFramesOf(columns, n) : columns \in ColumnLists, n \in 0..MaxRows }

\* df_to_azmltable
ToAzmltable ==
    /\ pc = "to_azmltable"
    /\ azt' = DfToAzmltable(df, swagger)
    /\ pc' = "to_df"
    /\ UNCHANGED <<batch_rest, http_vars, df, swagger, df2, more_vars>>

\* azmltable_to_df
ToDf ==
    /\ pc = "to_df"
    /\ df2' = AzmltableToDf(azt)
    /\ pc' = "codec_done"
    /\ UNCHANGED <<batch_rest, http_vars, df, swagger, azt, more_vars>>

InitCodec ==
    /\ pc = "to_azmltable"
    /\ BatchUnused
    /\ HttpUnused
    /\ df \in DataFrames
    /\ swagger \in BOOLEAN
    /\ azt = SwaggerTable(<<>>)
    /\ df2 = NotCalled
    /\ MoreUnused

NextCodec == ToAzmltable \/ ToDf

SpecCodec == InitCodec /\ [][NextCodec]_vars

\* params_df_to_params_dict
ParamsToDict ==
    /\ pc = "params"
    /\ df2' = ParamsDfToParamsDict(df)
    /\ pc' = "params_done"
    /\ UNCHANGED <<batch_rest, http_vars, df, swagger, azt, more_vars>>

InitParams ==
    /\ pc = "params"
    /\ BatchUnused
    /\ HttpUnused
    /\ df \in DataFrames
    /\ swagger = FALSE
    /\ azt = SwaggerTable(<<>>)
    /\ df2 = NotCalled
    /\ MoreUnused

NextParams == ParamsToDict

SpecParams == InitParams /\ [][NextParams]_vars

\* C8: params_df_to_params_dict accepts the table if and only if it has exactly
\* one row, and then returns the mapping column name -> value of that row
C8_ExactlyOneRow ==
    pc = "params_done" =>
        /\ df2.ok <=> Len(df.rows) = 1
        /\ df2.ok => df2.val = [j \in 1..Len(df.columns) |->
                                   [name |-> df.columns[j], value |-> df.rows[1][j]]]

\* two cells have the same type and the same value (nulls are all alike)
SameCell(c1, c2) == c1.k = c2.k /\ (c1.k = "null" \/ c1.v = c2.v)

SameRows(r1, r2) ==
    /\ Len(r1) = Len(r2)
    /\ \A i \in 1..Len(r1) :
          /\ Len(r1[i]) = Len(r2[i])
          /\ \A j \in 1..Len(r1[i]) : SameCell(r1[i][j], r2[i][j])

ZeroRowAB == df.columns = <<"a", "b">> /\ Len(df.rows) = 0

\* C9 as stated: a zero-row table with columns a, b comes back from the round
\* trip as a zero-row table with columns a, b, in both formats
C9_EmptyTableBothModes ==
    (pc = "codec_done" /\ ZeroRowAB) =>
        df2.ok /\ df2.val.columns = <<"a", "b">> /\ Len(df2.val.rows) = 0

\* C9 amended: it comes back as a zero-row table, with columns a, b in the
\* non-swagger (column) format and with no column in the swagger (row) format
C9_EmptyTableColumnMode ==
    (pc = "codec_done" /\ ZeroRowAB) =>
        /\ df2.ok /\ Len(df2.val.rows) = 0
        /\ df2.val.columns = (IF swagger THEN <<>> ELSE <<"a", "b">>)

\* the zero-row table went through the column format and kept its columns
C9_Witness ==
    /\ pc = "codec_done" /\ ZeroRowAB /\ ~swagger
    /\ azt.ColumnNames = Present(<<"a", "b">>) /\ azt.Values = Present(<<>>)
    /\ df2.ok /\ df2.val.columns = <<"a", "b">>

\* the texts that read_csv or to_datetime read as something else than a string
ReadsAsOther == IntTexts \cup FloatTexts \cup BoolTexts \cup DateTexts \cup NATexts

\* the cells of column j
ColumnCells(frame, j) == { frame.rows[i][j] : i \in 1..Len(frame.rows) }

\* the types of the values of column j, the nulls left out
ColumnKinds(frame, j) == { c.k : c \in ColumnCells(frame, j) } \ {"null"}

\* the columns that read_csv gives back with their type: the column holds
\* values of one type; with strings, one of them reads as nothing else and
\* none as a missing value; with integers, it holds no null
ColumnsStable(frame) ==
    \A j \in 1..Len(frame.columns) :
        LET strs == { c \in ColumnCells(frame, j) : c.k = "str" }
        IN /\ Cardinality(ColumnKinds(frame, j)) <= 1
           /\ strs # {} => /\ \E c \in strs : c.v \notin ReadsAsOther
                           /\ \A c \in strs : c.v \notin NATexts
           /\ "int" \in ColumnKinds(frame, j)
                 => \A c \in ColumnCells(frame, j) : c.k # "null"

\* the tables that type inference leaves as they are: the columns are those
\* that read_csv gives back with their type, no integer stands in a table
\* whose values are turned into floats (integer and float columns only, with
\* a float column), and the datetimes are in UTC
InferenceStable(frame) ==
    /\ ColumnsStable(frame)
    /\ \A j \in 1..Len(frame.columns) :
          /\ "int" \in ColumnKinds(frame, j) => CommonDtype(frame.dtypes) # "float64"
          /\ \A c \in ColumnCells(frame, j) : c.k = "datetime" => Zone(c.v) = "+00:00"

\* C10 as stated: in the column format every table comes back with the same
\* columns in the same order, the same values and the same value types
C10_ColumnRoundTripIdentity ==
    (pc = "codec_done" /\ ~swagger) =>
        /\ df2.ok
        /\ df2.val.columns = df.columns
        /\ SameRows(df2.val.rows, df.rows)

\* C10 amended: every table comes back with the same columns in the same
\* order and as many rows, and with the same values and value types when type
\* inference leaves it as it is: its columns hold one type each, its strings
\* do not all read as another type nor any as a missing value, its integers
\* stand beside no null and are not turned into floats, and its datetimes
\* are in UTC
C10_ColumnRoundTripWhenStable ==
    (pc = "codec_done" /\ ~swagger) =>
        /\ df2.ok
        /\ df2.val.columns = df.columns
        /\ Len(df2.val.rows) = Len(df.rows)
        /\ InferenceStable(df) => SameRows(df2.val.rows, df.rows)

\* a table with a string column next to an integer column, two rows, came back
C10_Witness ==
    /\ pc = "codec_done" /\ ~swagger
    /\ df.dtypes = <<"object", "int64">> /\ Len(df.rows) = 2
    /\ df.rows[1][1] = [k |-> "str", v |-> "1"] /\ df.rows[2][1] = [k |-> "str", v |-> "abc"]
    /\ InferenceStable(df)
    /\ df2.ok /\ SameRows(df2.val.rows, df.rows)

(***************************************************************************)
(* azmltable_to_df on its own: parsed AzureML tables as they may come from *)
(* the wire, with rows that do not follow the first row.                   *)
(***************************************************************************)
\* the number of rows of the swagger tables tried
MaxWireRows == 3

WireKeys == {"a", "b", "c"}

\* the value every wire row gives a key
WireValue(key) ==
    IF key = "a" THEN [k |-> "int", v |-> "1"]
    ELSE IF key = "b" THEN [k |-> "str", v |-> "abc"]
    ELSE [k |-> "float", v |-> "1.5"]

\* the ordered dicts over WireKeys: every subset of the keys in every order
WireRows ==
    LET orders == UNION { [1..n -> WireKeys] : n \in 0..Cardinality(WireKeys) }
        names == { o \in orders : \A i, j \in DOMAIN o : i # j => o[i] # o[j] }
    IN { [j \in DOMAIN o |-> [name |-> o[j], value |-> WireValue(o[j])]] : o \in names }

\* swagger tables, and non-swagger tables that may lack one of their keys
WireTables ==
    { SwaggerTable(rows) : rows \in UNION { [1..n -> WireRows] : n \in 0..MaxWireRows } }
        \cup { NonSwaggerTable(c, v) :
                  c \in Optional({<<"a">>}, <<>>),
                  v \in Optional({<<>>, <<<<WireValue("a")>>>>}, <<>>) }

InitWire ==
    /\ pc = "to_df"
    /\ BatchUnused
    /\ HttpUnused
    /\ df = DataFrame(<<>>, <<>>, <<>>)
    /\ swagger = FALSE
    /\ azt \in WireTables
    /\ df2 = NotCalled
    /\ MoreUnused

NextWire == ToDf

SpecWire == InitWire /\ [][NextWire]_vars

\* row i of the table lacks a key of the first row; it has a key that the
\* first row does not have
LacksColumn(i) == ~(Keys(azt.rows[1]) \subseteq Keys(azt.rows[i]))
HasOtherColumn(i) == ~(Keys(azt.rows[i]) \subseteq Keys(azt.rows[1]))

\* the first row that does not have the keys of the first row exactly
FirstBadRow ==
    CHOOSE i \in 1..Len(azt.rows) :
        /\ LacksColumn(i) \/ HasOtherColumn(i)
        /\ \A h \in 1..(i - 1) : ~(LacksColumn(h) \/ HasOtherColumn(h))

\* the text "row #i" stands in the message
NamesRow(msg, i) ==
    \E at \in 1..Len(msg) : SubSeq(msg, at, at + 4 + Len(ToString(i))) = "row #" \o ToString(i)

\* C11: in the swagger (row) format the columns are the keys of the first row,
\* in its order; a table where some row lacks one of them or has another key
\* gives no DataFrame but a ValueError that names the first such row: "a
\* column is missing" when the row lacks a key, "columns are present ... but
\* not in the first row" when it only has a new one; and a table whose rows
\* all have the keys of the first row raises none of the two
C11_RowsCheckedAgainstFirst ==
    (pc = "codec_done" /\ azt.list /\ Len(azt.rows) > 0) =>
        IF \E i \in 1..Len(azt.rows) : LacksColumn(i) \/ HasOtherColumn(i)
        THEN /\ ~df2.ok
             /\ df2.err.type = "ValueError"
             /\ NamesRow(df2.err.msg, FirstBadRow)
             /\ SubSeq(df2.err.msg, 1, 19) = "A column is missing" <=> LacksColumn(FirstBadRow)
             /\ SubSeq(df2.err.msg, 1, 19) = "Columns are present" <=> ~LacksColumn(FirstBadRow)
        ELSE /\ df2.ok \/ df2.err.type # "ValueError"
             /\ df2.ok => df2.val.columns = [j \in 1..Len(azt.rows[1]) |-> azt.rows[1][j].name]

\* rows 1 and 2 have the keys a, b and row 3 has the key c besides: the error
\* names row 3 and its new column
C11_Witness ==
    /\ pc = "codec_done" /\ azt.list /\ Len(azt.rows) = 3
    /\ Keys(azt.rows[1]) = {"a", "b"} /\ Keys(azt.rows[2]) = {"a", "b"}
    /\ Keys(azt.rows[3]) = {"a", "b", "c"}
    /\ df2 = Raise("ValueError", "Columns are present in row #3 but not in the first row")

(***************************************************************************)
(* df_to_csv and csv_to_df on their own: a DataFrame is written as CSV     *)
(* text and read back.                                                     *)
(***************************************************************************)
DateHalf == [k |-> "datetime", v |-> "2020-01-01 00:00:00.500000+00:00"]

\* the columns tried: those of the table codec, and a datetime column with a
\* fraction of a second
CsvColumnPools ==
    ColumnPools \cup { [dtype |-> "datetime64[ns, UTC]", cells |-> {DateHalf, Date2}] }

CsvColumnsOf(n) ==
    UNION { { [dtype |-> p.dtype, cells |-> c] : c \in [1..n -> p.cells] } : p \in CsvColumnPools }

CsvDataFrames ==
    UNION { { DataFrame(columns,
                        [j \in 1..Len(columns) |-> col[j].dtype],
                        [i \in 1..n |-> [j \in 1..Len(columns) |-> col[j].cells[i]]]) :
                col \in [1..Len(columns) -> CsvColumnsOf(n)] } :
            columns \in ColumnLists, n \in 0..MaxRows }

\* df_to_csv
ToCsv ==
    /\ pc = "to_csv"
    /\ csv' = DfToCsv(df)
    /\ pc' = "from_csv"
    /\ UNCHANGED <<batch_rest, http_vars, codec_vars, except_csv>>

\* csv_to_df
FromCsv ==
    /\ pc = "from_csv"
    /\ df2' = Ok(CsvToDf(csv))
    /\ pc' = "csv_done"
    /\ UNCHANGED <<batch_rest, http_vars, df, swagger, azt, more_vars>>

InitCsv ==
    /\ pc = "to_csv"
    /\ BatchUnused
    /\ HttpUnused
    /\ df \in CsvDataFrames
    /\ swagger = FALSE
    /\ azt = SwaggerTable(<<>>)
    /\ df2 = NotCalled
    /\ MoreUnused

NextCsv == ToCsv \/ FromCsv

SpecCsv == InitCsv /\ [][NextCsv]_vars

\* every datetime column of the table read is timezone-aware in UTC
DatetimeColumnsInUTC(frame) ==
    \A j \in 1..Len(frame.columns) :
        /\ frame.dtypes[j] \in {"datetime64[ns]", "datetime64[ns, pytz.FixedOffset(60)]"} => FALSE
        /\ \A c \in ColumnCells(frame, j) : c.k = "datetime" => Zone(c.v) = "+00:00"

\* the tables that the CSV text keeps as they are: the columns are those
\* that read_csv gives back with their type, as for the table codec, and the
\* datetimes are in UTC with whole seconds
CsvStable(frame) ==
    /\ ColumnsStable(frame)
    /\ \A j \in 1..Len(frame.columns) :
          \A c \in ColumnCells(frame, j) :
              c.k = "datetime" => Zone(c.v) = "+00:00" /\ Len(c.v) = 25

\* C12 as stated: every table comes back from df_to_csv then csv_to_df with
\* the same columns, values and value types, and its datetime columns in UTC
C12_CsvRoundTripIdentity ==
    pc = "csv_done" =>
        /\ df2.ok
        /\ df2.val.columns = df.columns
        /\ SameRows(df2.val.rows, df.rows)
        /\ DatetimeColumnsInUTC(df2.val)

\* C12 amended: every table comes back with the same columns and as many
\* rows, every datetime column read is in UTC, and the values and value types
\* are the same when the columns hold one type each, no string reads as
\* another type or as a missing value, the integers stand beside no null,
\* and the datetimes are in UTC with whole seconds
C12_CsvRoundTripWhenStable ==
    pc = "csv_done" =>
        /\ df2.ok
        /\ df2.val.columns = df.columns
        /\ Len(df2.val.rows) = Len(df.rows)
        /\ DatetimeColumnsInUTC(df2.val)
        /\ CsvStable(df) => SameRows(df2.val.rows, df.rows)

\* a UTC datetime column next to an integer column came back unchanged, and
\* the text held the datetime in the ISO format with its offset
C12_Witness ==
    /\ pc = "csv_done"
    /\ df.dtypes = <<"datetime64[ns, UTC]", "int64">> /\ Len(df.rows) = 2
    /\ df.rows[1][1] = Date1 /\ df.rows[2][1] = NaT
    /\ csv.lines[1][1] = "2020-01-01T00:00:00.000+0000" /\ csv.lines[2][1] = ""
    /\ df2.ok /\ df2.val.dtypes = <<"datetime64[ns, UTC]", "int64">>
    /\ SameRows(df2.val.rows, df.rows)

(***************************************************************************)
(* The calls tried on the blob references.                                 *)
(***************************************************************************)
\* the arguments tried
BlobNames == {"Foo.CSV", "Foo", "Foo.csv.csv", "sv"}
PathPrefixes == {None, "", "p", "p/"}
NamePrefixes == {None, "", "x-", "x.c", "a/b", "a\\b"}

\* the lists of names: any list for create_blob_refs, the keys of a dict for
\* the two calls that upload
NameLists(entry) ==
    { names \in UNION { [1..n -> BlobNames] : n \in 0..MaxNames } :
        entry # "create_blob_refs" => \A i, j \in DOMAIN names : i # j => names[i] # names[j] }

BlobCalls ==
    { [entry |-> entry[1], blob_container |-> "c", blob_names |-> names,
       blob_path_prefix |-> path, blob_name_prefix |-> prefix, failed_at |-> entry[2],
       done |-> 0] :
        entry \in { <<"create_blob_refs", 0>> }
                     \cup ({"csvs_to_blob_refs", "dfs_to_blob_refs"} \X (0..MaxNames)),
        names \in UNION { NameLists(e) : e \in {"create_blob_refs", "dfs_to_blob_refs"} },
        path \in PathPrefixes, prefix \in NamePrefixes }

\* create_blob_refs: references only, nothing is uploaded
DoCreateBlobRefs ==
    /\ pc = "blob"
    /\ blob_args.entry = "create_blob_refs"
    /\ blob_refs' = CreateBlobRefs(blob_args.blob_container, blob_args.blob_names,
                                   blob_args.blob_path_prefix, blob_args.blob_name_prefix)
    /\ pc' = "blob_done"
    /\ UNCHANGED <<batch_rest, http_vars, codec_vars, except_blob, blob_args, storage>>

\* one step of the call of blob_args, part being the call on the names gone
\* through: an upload is made or raises, and the call returns after the last
UploadNext(part) ==
    LET step == UploadStep(part, blob_args.blob_names, blob_args.done)
    IN /\ storage' = storage \cup step.created
       /\ IF step.finished
          THEN blob_refs' = step.result /\ pc' = "blob_done" /\ blob_args' = blob_args
          ELSE blob_refs' = blob_refs /\ pc' = pc
               /\ blob_args' = [blob_args EXCEPT !.done = blob_args.done + 1]

\* csvs_to_blob_refs, one upload at a time
DoCsvsToBlobRefs ==
    /\ pc = "blob"
    /\ blob_args.entry = "csvs_to_blob_refs"
    /\ UploadNext(CsvsToBlobRefs(blob_args.blob_container,
                                 NamesUpTo(blob_args.blob_names, blob_args.done),
                                 blob_args.blob_path_prefix, blob_args.blob_name_prefix,
                                 blob_args.failed_at))
    /\ UNCHANGED <<batch_rest, http_vars, codec_vars, except_blob>>

\* dfs_to_blob_refs, one upload at a time
DoDfsToBlobRefs ==
    /\ pc = "blob"
    /\ blob_args.entry = "dfs_to_blob_refs"
    /\ UploadNext(DfsToBlobRefs(blob_args.blob_container,
                                NamesUpTo(blob_args.blob_names, blob_args.done),
                                blob_args.blob_path_prefix, blob_args.blob_name_prefix,
                                blob_args.failed_at))
    /\ UNCHANGED <<batch_rest, http_vars, codec_vars, except_blob>>

InitBlob ==
    /\ pc = "blob"
    /\ BatchUnused
    /\ HttpUnused
    /\ CodecUnused
    /\ csv = NoCsv
    /\ clock = 0
    /\ calls = <<>>
    /\ body_args = [builder |-> "none"]
    /\ body = NotCalled
    /\ blob_args \in { c \in BlobCalls : c.blob_names \in NameLists(c.entry) }
    /\ blob_refs = NotCalled
    /\ storage = {}
    /\ RespUnused
    /\ ClientUnused

NextBlob == DoCreateBlobRefs \/ DoCsvsToBlobRefs \/ DoDfsToBlobRefs

SpecBlob == InitBlob /\ [][NextBlob]_vars

\* s without one trailing ".csv", whatever its case
StripCsv(s) == IF LowerEndsWith(s, ".csv") THEN SubSeq(s, 1, Len(s) - 4) ELSE s

\* the path prefix with its "/"
WithSlash(path) ==
    IF path = None \/ path = "" THEN ""
    ELSE IF EndsWith(path, "/") THEN path
    ELSE path \o "/"

GivenNamePrefix == IF blob_args.blob_name_prefix = None THEN "" ELSE blob_args.blob_name_prefix

\* the call returned references and RelativeLocation is location(name) for
\* every name given
LocationsAre(location(_)) ==
    (pc = "blob_done" /\ blob_refs.ok) =>
        /\ DOMAIN blob_refs.val = Range(blob_args.blob_names)
        /\ \A name \in DOMAIN blob_refs.val :
              blob_refs.val[name].RelativeLocation = location(name)

StrippedName(name) ==
    blob_args.blob_container \o "/" \o WithSlash(blob_args.blob_path_prefix)
        \o GivenNamePrefix \o StripCsv(name) \o ".csv"

StrippedPrefixedName(name) ==
    blob_args.blob_container \o "/" \o WithSlash(blob_args.blob_path_prefix)
        \o StripCsv(GivenNamePrefix \o name) \o ".csv"

\* C13 as stated: RelativeLocation is container/P + namePrefix + S + ".csv",
\* S being the name without one trailing ".csv"
C13_SuffixStrippedFromName == LocationsAre(StrippedName)

\* what create_blob_refs builds: RelativeLocation is container/P + S' +
\* ".csv", S' being namePrefix + name without one trailing ".csv"; this is
\* the location of the claim unless the name is shorter than ".csv" and ends
\* a ".csv" that the name prefix begins
C13_SuffixStrippedFromPrefixedName ==
    /\ LocationsAre(StrippedPrefixedName)
    /\ (pc = "blob_done" /\ blob_refs.ok) =>
          \A name \in DOMAIN blob_refs.val :
              (Len(name) >= 4 \/ ~LowerEndsWith(GivenNamePrefix \o name, ".csv"))
                  => blob_refs.val[name].RelativeLocation = StrippedName(name)

\* name "Foo.CSV" and "Foo", container "c", path prefix "p", name prefix "x-":
\* both references are "c/p/x-Foo.csv"
C13_Witness ==
    /\ pc = "blob_done" /\ blob_refs.ok
    /\ blob_args.entry = "create_blob_refs"
    /\ blob_args.blob_names = <<"Foo.CSV", "Foo">>
    /\ blob_args.blob_path_prefix = "p" /\ blob_args.blob_name_prefix = "x-"
    /\ blob_refs.val["Foo.CSV"].RelativeLocation = "c/p/x-Foo.csv"
    /\ blob_refs.val["Foo"].RelativeLocation = "c/p/x-Foo.csv"

\* C14: a call with names and a name prefix that contains "/" or "\" raises
\* an error about the name prefix, creates no blob and returns no reference
C14_SeparatorInNamePrefixRejected ==
    (/\ pc = "blob_done"
     /\ Len(blob_args.blob_names) > 0
     /\ Contains(GivenNamePrefix, "/") \/ Contains(GivenNamePrefix, "\\"))
        => /\ ~blob_refs.ok
           /\ blob_refs.err.type = "ValueError"
           /\ storage = {}

(***************************************************************************)
(* push_inputs_to_blob__and__create_output_references, called by several   *)
(* threads or processes at once on the same container and path prefix.     *)
(* Nothing is shared between the calls but the system clock and the blob   *)
(* storage.                                                                *)
(***************************************************************************)
\* the microseconds that go by during the calls
MaxClock == 2

Callers == {1, 2}

\* the logical names of the inputs and of the outputs of a call
InputNameLists == { <<"data">>, <<"in1", "in2">>, <<"Foo", "Foo.CSV">> }
OutputNameLists == { <<>>, <<"out">>, <<"data">>, <<"Foo", "Foo.csv">> }

\* the system clock goes on
Tick ==
    /\ clock < MaxClock
    /\ clock' = clock + 1
    /\ UNCHANGED <<batch_vars, http_vars, codec_vars, except_push, calls, storage>>

\* 1- create unique blob naming prefix
ReadNow(c) ==
    /\ calls[c].pc = "now"
    /\ calls' = [calls EXCEPT ![c].now = clock, ![c].pc = "inputs"]
    /\ UNCHANGED <<batch_vars, http_vars, codec_vars, except_push, clock, storage>>

\* 2- store INPUTS and retrieve references: one step for each upload that
\* dfs_to_blob_refs waits for, which is made or raises
StoreInputs(c) ==
    /\ calls[c].pc = "inputs"
    /\ \E failed_at \in {0, calls[c].done + 1} :
          LET step == UploadStep(DfsToBlobRefs("c", NamesUpTo(calls[c].inputs, calls[c].done), "p",
                                               UniqueBlobNamePrefix(calls[c].now) \o "-input-",
                                               failed_at),
                                 calls[c].inputs, calls[c].done)
          IN /\ calls' = [calls EXCEPT
                            ![c].input_refs = step.result,
                            ![c].done = IF step.finished THEN @ ELSE @ + 1,
                            ![c].pc = IF ~step.finished THEN "inputs"
                                      ELSE IF step.result.ok THEN "outputs" ELSE "done"]
             /\ storage' = storage \cup step.created
    /\ UNCHANGED <<batch_vars, http_vars, codec_vars, except_push, clock>>

\* 3- create OUTPUT references
CreateOutputRefs(c) ==
    /\ calls[c].pc = "outputs"
    /\ calls' = [calls EXCEPT ![c].output_refs =
                                  CreateBlobRefs("c", calls[c].outputs, "p",
                                                 UniqueBlobNamePrefix(calls[c].now) \o "-output-"),
                              ![c].pc = "done"]
    /\ UNCHANGED <<batch_vars, http_vars, codec_vars, except_push, clock, storage>>

InitPush ==
    /\ pc = "push_calls"
    /\ BatchUnused
    /\ HttpUnused
    /\ CodecUnused
    /\ csv = NoCsv
    /\ blob_args = [entry |-> "none"]
    /\ blob_refs = NotCalled
    /\ storage = {}
    /\ body_args = [builder |-> "none"]
    /\ body = NotCalled
    /\ clock = 0
    /\ calls \in [Callers -> { [pc |-> "now", now |-> 0, inputs |-> i, outputs |-> o, done |-> 0,
                                input_refs |-> NotCalled, output_refs |-> NotCalled] :
                               i \in InputNameLists, o \in OutputNameLists }]
    /\ RespUnused
    /\ ClientUnused

NextPush ==
    \/ Tick
    \/ \E c \in Callers : ReadNow(c) \/ StoreInputs(c) \/ CreateOutputRefs(c)

SpecPush == InitPush /\ [][NextPush]_vars

\* the blob locations that call c has produced so far
LocationsOf(c) ==
    { calls[c].input_refs.val[n].RelativeLocation :
        n \in IF calls[c].input_refs.ok THEN DOMAIN calls[c].input_refs.val ELSE {} }
    \cup { calls[c].output_refs.val[n].RelativeLocation :
        n \in IF calls[c].output_refs.ok THEN DOMAIN calls[c].output_refs.val ELSE {} }

\* C15: two calls that run at the same time never produce the same blob
\* location
C15_NoCollisionBetweenCalls ==
    \A c1, c2 \in Callers : c1 # c2 => LocationsOf(c1) \cap LocationsOf(c2) = {}

\* the references that a call of the push step has returned, by logical name
RefsOf(refs) == IF refs.ok THEN refs.val ELSE <<>>

\* C30: within one call, two distinct input names or two distinct output
\* names never get the same RelativeLocation, and an input never shares its
\* location with an output
C30_DistinctNamesDistinctLocations ==
    \A c \in Callers :
        LET ins == RefsOf(calls[c].input_refs)
            outs == RefsOf(calls[c].output_refs)
        IN /\ \A n1, n2 \in DOMAIN ins :
                 n1 # n2 => ins[n1].RelativeLocation # ins[n2].RelativeLocation
           /\ \A n1, n2 \in DOMAIN outs :
                 n1 # n2 => outs[n1].RelativeLocation # outs[n2].RelativeLocation
           /\ \A n1 \in DOMAIN ins, n2 \in DOMAIN outs :
                 ins[n1].RelativeLocation # outs[n2].RelativeLocation

\* the part of it that the code keeps: the inputs and the outputs of one call
\* are apart, the same logical name included
C30_InputsApartFromOutputs ==
    \A c \in Callers :
        \A n1 \in DOMAIN RefsOf(calls[c].input_refs), n2 \in DOMAIN RefsOf(calls[c].output_refs) :
            RefsOf(calls[c].input_refs)[n1].RelativeLocation
                # RefsOf(calls[c].output_refs)[n2].RelativeLocation

(***************************************************************************)
(* The request bodies tried.                                               *)
(***************************************************************************)
\* the arguments tried
ParamsDicts == { <<>>, <<[name |-> "a", value |-> [k |-> "str", v |-> "1"]]>>,
                 <<[name |-> "a", value |-> [k |-> "int", v |-> "1"]],
                   [name |-> "b", value |-> [k |-> "bool", v |-> "True"]]>> }

ParamsArguments ==
    { [shape |-> "none"], [shape |-> "list"], [shape |-> "str"] }
        \cup { [shape |-> "dict", items |-> d] : d \in ParamsDicts }
        \cup { [shape |-> "DataFrame", df |-> t] : t \in DataFrames }

InputDfDicts ==
    { <<>>,
      <<[name |-> "in1", df |-> DataFrame(<<"a">>, <<"int64">>, <<<<[k |-> "int", v |-> "1"]>>>>)]>> }

\* a dict of blob references, or None
BlobRefDicts ==
    { [given |-> FALSE],
      [given |-> TRUE,
       refs |-> <<[name |-> "d", ref |-> [ConnectionString |-> ConnectionString,
                                           RelativeLocation |-> "c/p/d.csv"]]>>] }

BodyArguments ==
    { [builder |-> "rr", inputs |-> i, params |-> p] : i \in InputDfDicts, p \in ParamsArguments }
        \cup { [builder |-> "batch", inputs |-> r, params |-> p, outputs |-> r] :
                  r \in BlobRefDicts, p \in ParamsArguments }

CreateBodyRR ==
    /\ pc = "body"
    /\ body_args.builder = "rr"
    /\ body' = CreateRequestBodyRR(body_args.inputs, body_args.params)
    /\ pc' = "body_done"
    /\ UNCHANGED <<batch_rest, http_vars, codec_vars, except_body, body_args, storage>>

CreateBodyBatch ==
    /\ pc = "body"
    /\ body_args.builder = "batch"
    /\ body' = CreateRequestBodyBatch(body_args.inputs, body_args.params, body_args.outputs)
    /\ pc' = "body_done"
    /\ UNCHANGED <<batch_rest, http_vars, codec_vars, except_body, body_args, storage>>

InitBody ==
    /\ pc = "body"
    /\ BatchUnused
    /\ HttpUnused
    /\ CodecUnused
    /\ csv = NoCsv
    /\ blob_args = [entry |-> "none"]
    /\ blob_refs = NotCalled
    /\ storage = {}
    /\ clock = 0
    /\ calls = <<>>
    /\ body_args \in BodyArguments
    /\ body = NotCalled
    /\ RespUnused
    /\ ClientUnused

NextBody == CreateBodyRR \/ CreateBodyBatch

SpecBody == InitBody /\ [][NextBody]_vars

\* the items of row 1 of a table
FirstRowItems(t) == [j \in 1..Len(t.columns) |-> [name |-> t.columns[j], value |-> t.rows[1][j]]]

\* C16: a body is produced for parameters given as a dict (kept as they are),
\* as a table of exactly one row (its row, as a dict) or not given (empty
\* dict), and for nothing else: another type raises TypeError; the body of
\* the request-response builder has the keys Inputs and GlobalParameters, that
\* of the batch builder the keys Inputs, GlobalParameters and Outputs
C16_ParamsShapesAndBodyKeys ==
    pc = "body_done" =>
        LET p == body_args.params
        IN /\ body.ok =>
                 DOMAIN body.val = IF body_args.builder = "rr"
                                   THEN {"Inputs", "GlobalParameters"}
                                   ELSE {"Inputs", "GlobalParameters", "Outputs"}
           /\ p.shape = "none" => body.ok /\ body.val.GlobalParameters = <<>>
           /\ p.shape = "dict" => body.ok /\ body.val.GlobalParameters = p.items
           /\ (p.shape = "DataFrame" /\ Len(p.df.rows) = 1 /\ "bool" \notin Range(p.df.dtypes))
                 => body.ok /\ body.val.GlobalParameters = FirstRowItems(p.df)
           /\ (p.shape = "DataFrame" /\ Len(p.df.rows) # 1) => ~body.ok
           /\ p.shape \in {"list", "str"} => ~body.ok /\ body.err.type = "TypeError"

(***************************************************************************)
(* read_response_json_body (base.py): the outputs of a request-response    *)
(* call.  The parsed body is [Results], a key that may be missing; Results *)
(* is an ordered dict given as a sequence of [name, value] items, and the  *)
(* value of an output is the dict [type, value] that wraps its table.      *)
(***************************************************************************)
\* the number of names that output_names may hold
MaxOutputs == 2

\* azmltable_to_df, is_azml_output = True; the second message goes on with
\* the keys found and the name of the table
AzmlOutputTableToDf(azmltable) ==
    IF azmltable.type.has /\ azmltable.value.has
    THEN IF azmltable.type.val = "table"
         THEN AzmltableToDf(azmltable.value.val)
         ELSE Raise("ValueError",
                    "This method is able to read table objects, found type=" \o azmltable.type.val)
    ELSE Raise("ValueError", "object should be a dictionary with two fields 'type' and 'value'")

\* azmltables_to_dfs: the comprehension stops at the first table that raises
AzmltablesToDfs(azmltables_dict, is_azureml_output) ==
    LET to_df(t) == IF is_azureml_output THEN AzmlOutputTableToDf(t) ELSE AzmltableToDf(t)
        failed == { i \in 1..Len(azmltables_dict) : ~to_df(azmltables_dict[i].value).ok }
    IN IF failed # {}
       THEN to_df(azmltables_dict[CHOOSE i \in failed : \A h \in failed : i <= h].value)
       ELSE Ok([i \in 1..Len(azmltables_dict) |->
                  [name |-> azmltables_dict[i].name,
                   value |-> to_df(azmltables_dict[i].value).val]])

\* the sequences that hold every element of S once: the orders in which a
\* Python set may be listed
Orderings(S) ==
    { o \in [1..Cardinality(S) -> S] : \A i, j \in 1..Cardinality(S) : o[i] = o[j] => i = j }

\* 'n1', 'n2', ...
RECURSIVE ReprNames(_)
ReprNames(names) ==
    IF Len(names) = 0 THEN ""
    ELSE IF Len(names) = 1 THEN "'" \o names[1] \o "'"
    ELSE "'" \o names[1] \o "', " \o ReprNames(Tail(names))

\* str() of a list and of a set of strings
ListRepr(names) == "[" \o ReprNames(names) \o "]"
SetRepr(names) == IF Len(names) = 0 THEN "set()" ELSE "{" \o ReprNames(names) \o "}"

\* set(output_names) - set(result_dfs.keys()), with every requested name taken
\* for a missing one
MissingOutputs_Requested(output_names, result_dfs) == Range(output_names)

\* read_response_json_body: set(output_names) - set(result_dfs.keys())
MissingOutputs(output_names, result_dfs) == Range(output_names) \ Keys(result_dfs)

\* read_response_json_body: {k: result_dfs[k] for k in output_names}, a dict
\* whose keys come in the order of their first place in output_names
SelectedDfs(output_names, result_dfs) ==
    LET firsts == SelectSeq([i \in 1..Len(output_names) |-> i],
                            LAMBDA i : \A h \in 1..(i - 1) : output_names[h] # output_names[i])
    IN [n \in 1..Len(firsts) |->
          [name |-> output_names[firsts[n]], value |-> Get(result_dfs, output_names[firsts[n]])]]

\* read_response_json_body on the parsed body; missing and found are the
\* orders in which list(set) and set list the names in the message
ReadResponseJsonBody(result_dict, output_names, missing, found) ==
    IF ~result_dict.Results.has
    THEN Raise("KeyError", "'Results'")
    ELSE LET result_dfs == AzmltablesToDfs(result_dict.Results.val, TRUE)
         IN IF ~result_dfs.ok
            THEN result_dfs
            ELSE IF ~output_names.given
            THEN result_dfs
            ELSE IF \E i \in 1..Len(output_names.names) :
                       output_names.names[i] \notin Keys(result_dfs.val)
            THEN Raise("Exception",
                       "Error : the following outputs are missing in the results: "
                           \o ListRepr(missing) \o ". Found outputs: " \o SetRepr(found))
            ELSE Ok(SelectedDfs(output_names.names, result_dfs.val))

\* the tables an output may hold: a table of one row, a table without rows,
\* a value of another type, and a table that is not wrapped
WrappedTable(type, azmltable) == [type |-> Present(type), value |-> Present(azmltable)]

OutputValues ==
    { WrappedTable("table", NonSwaggerTable(Present(<<"a">>), Present(<<<<[k |-> "int", v |-> "1"]>>>>))),
      WrappedTable("table", NonSwaggerTable(Present(<<"b">>), Present(<<>>))),
      WrappedTable("scalar", NonSwaggerTable(Present(<<"a">>), Present(<<>>))),
      [type |-> Absent(""), value |-> Absent(NonSwaggerTable(Present(<<"a">>), Present(<<>>)))] }

\* the names of the outputs of the service, and those a caller may ask for
ServiceOutputs == {"output1", "output2"}
RequestedOutputs == ServiceOutputs \cup {"output3"}

\* the response bodies: Results with zero to two outputs, or no Results
ResponseBodies ==
    { [Results |-> Absent(<<>>)] }
        \cup { [Results |-> Present([i \in 1..Len(o) |-> [name |-> o[i], value |-> v[i]]])] :
                 <<o, v>> \in UNION { Orderings(S) \X [1..Cardinality(S) -> OutputValues] :
                                        S \in SUBSET ServiceOutputs } }

\* output_names: None, or a list of names in which a name may come twice
OutputNameArguments ==
    { [given |-> FALSE] }
        \cup { [given |-> TRUE, names |-> names] :
                 names \in UNION { [1..n -> RequestedOutputs] : n \in 0..MaxOutputs } }

ReadResponse ==
    /\ pc = "resp"
    /\ \E missing \in Orderings(IF resp_args.output_names.given /\ resp_args.body_json.Results.has
                                THEN MissingOutputs(resp_args.output_names.names,
                                                    resp_args.body_json.Results.val)
                                ELSE {}),
          found \in Orderings(IF resp_args.body_json.Results.has
                              THEN Keys(resp_args.body_json.Results.val) ELSE {}) :
          resp_out' = ReadResponseJsonBody(resp_args.body_json, resp_args.output_names, missing, found)
    /\ pc' = "resp_done"
    /\ UNCHANGED <<batch_rest, http_vars, codec_vars, except_resp, resp_args>>

InitResp ==
    /\ pc = "resp"
    /\ BatchUnused
    /\ HttpUnused
    /\ CodecUnused
    /\ csv = NoCsv
    /\ blob_args = [entry |-> "none"]
    /\ blob_refs = NotCalled
    /\ storage = {}
    /\ clock = 0
    /\ calls = <<>>
    /\ body_args = [builder |-> "none"]
    /\ body = NotCalled
    /\ resp_args \in [reader : {"read_response_json_body"}, body_json : ResponseBodies,
                      output_names : OutputNameArguments]
    /\ resp_out = NotCalled
    /\ ClientUnused

NextResp == ReadResponse

SpecResp == InitResp /\ [][NextResp]_vars

\* the text s holds the text sub
HasSubstring(s, sub) ==
    \E i \in 1..(Len(s) - Len(sub) + 1) : SubSeq(s, i, i + Len(sub) - 1) = sub

\* the outputs of the response read, when each of them is a table
ResponseDfs == AzmltablesToDfs(resp_args.body_json.Results.val, TRUE)

\* the requested names that the response lacks
LackingNames == Range(resp_args.output_names.names) \ Keys(resp_args.body_json.Results.val)

\* C17: on a response whose Results are all tables, without output_names every
\* output is returned; with output_names that the response all has, the keys
\* returned are exactly these names, each with its table; with a name that the
\* response lacks, an Exception whose message lists the lacking names, and
\* only them, is raised and nothing is returned
C17_SelectsRequestedOutputs ==
    (pc = "resp_done" /\ resp_args.body_json.Results.has /\ ResponseDfs.ok) =>
        IF ~resp_args.output_names.given
        THEN resp_out = ResponseDfs
        ELSE IF LackingNames = {}
        THEN /\ resp_out.ok
             /\ Keys(resp_out.val) = Range(resp_args.output_names.names)
             /\ Len(resp_out.val) = Cardinality(Range(resp_args.output_names.names))
             /\ \A i \in 1..Len(resp_out.val) :
                   resp_out.val[i].value = Get(ResponseDfs.val, resp_out.val[i].name)
        ELSE /\ ~resp_out.ok
             /\ resp_out.err.type = "Exception"
             /\ \E o \in Orderings(LackingNames) :
                   HasSubstring(resp_out.err.msg, "missing in the results: " \o ListRepr(o) \o ". Found")

\* a response with two tables was asked for one of them and for a name it lacks
C17_Witness ==
    /\ pc = "resp_done"
    /\ resp_args.body_json.Results.has
    /\ ResponseDfs.ok
    /\ Len(ResponseDfs.val) = 2
    /\ resp_args.output_names.given
    /\ resp_args.output_names.names = <<"output1", "output3">>
    /\ ~resp_out.ok

(***************************************************************************)
(* AzureMLClient (clients.py): the current call mode, the with-blocks of   *)
(* call_mode and the routing of the methods decorated with                 *)
(* @azureml_service.  A call mode is given by the name of its class.  The  *)
(* code that uses the client is the environment: it opens and leaves       *)
(* with-blocks, calls services, and catches the exceptions that these      *)
(* raise, at any depth of nesting.                                         *)
(***************************************************************************)
\* the number of things one modelled program does with its client
MaxEvents == 2

CallModes == {"RequestResponse", "Batch", "LocalCallMode"}

\* the methods decorated with @azureml_service and the arguments they get
ServiceNames == {"add_columns", "subtract_columns"}
ServiceArgs == {"x", "y"}

\* whether the body of the decorated method calls self.call_azureml: the one
\* of add_columns does, the one of subtract_columns is `pass`
CallsAzureml(name) == name = "add_columns"

\* what __init_local_impl__ of a client class returns; None stands for the
\* method of the base class, which raises NotImplementedError
LocalImpls == {None, "MathsProviderLocal"}

\* AzureMLClient.__init__: the call mode the client starts in
DefaultCallMode(default_call_mode) ==
    IF default_call_mode = None THEN "RequestResponse" ELSE default_call_mode

\* is_local_mode answering no for every mode
IsLocalMode_Never(mode) == FALSE

\* is_local_mode: isinstance(self.current_call_mode, LocalCallMode)
IsLocalMode(mode) == mode = "LocalCallMode"

\* the property local_impl: the implementation, created on first use
LocalImpl(impl, init) ==
    IF impl = None
    THEN IF init = None
         THEN Raise("NotImplementedError", "Local execution is not available for this client.")
         ELSE Ok(init)
    ELSE Ok(impl)

\* get_requests_session: self.global_cfg.get_requests_session(), a method
\* that GlobalConfig does not have
GetRequestsSession ==
    Raise("AttributeError", "'GlobalConfig' object has no attribute 'get_requests_session'")

\* the outcomes of AzureMLClient.call_azureml for a configured service: the
\* session is retrieved first, then call_azureml of the current call mode is
\* entered, which returns or raises; remote is the mode whose call_azureml
\* was entered, if any
CallAzureml(mode) ==
    IF GetRequestsSession.ok
    THEN { [remote |-> mode, error |-> e] : e \in {NoErr, Raise("ConnectionError", "").err} }
    ELSE { [remote |-> "", error |-> GetRequestsSession.err] }

\* an entry of client_log: a with-block entered or left (op "enter", "exit":
\* the mode before the statement and after it), or a service method called
\* (op "service": the mode of the client, where the call ran, "local" or
\* "body", under which name and with which arguments, the mode of the remote
\* call made if any, and the exception raised if any)
Event(op, name, args, mode, where, ran, remote, error, before, after) ==
    [op |-> op, name |-> name, args |-> args, mode |-> mode, where |-> where, ran |-> ran,
     remote |-> remote, error |-> error, before |-> before, after |-> after]

BlockEvent(op, before, after, error) ==
    Event(op, "", "", "", "", <<>>, "", error, before, after)

\* the setter of the property current_call_mode, used from outside a with
\* statement: the mode changes and nothing else does
SetCurrentCallMode(mode) ==
    /\ pc = "client"
    /\ raising = NoErr
    /\ current_call_mode' = mode
    /\ UNCHANGED <<batch_vars, http_vars, codec_vars, except_client, local_impl, init_local_impl,
                   with_blocks, raising, client_log>>

\* call_mode, up to its yield: the with statement is entered
EnterCallMode(mode) ==
    /\ pc = "client"
    /\ raising = NoErr
    /\ Len(client_log) < MaxEvents
    /\ with_blocks' = Append(with_blocks, [previous_mode |-> current_call_mode])
    /\ current_call_mode' = mode
    /\ client_log' = Append(client_log, BlockEvent("enter", current_call_mode, mode, ""))
    /\ UNCHANGED <<batch_vars, http_vars, codec_vars, except_client, local_impl, init_local_impl, raising>>

\* call_mode, after its yield: the body of the innermost with-block completed
ExitCallMode ==
    /\ pc = "client"
    /\ raising = NoErr
    /\ with_blocks # <<>>
    /\ LET previous_mode == with_blocks[Len(with_blocks)].previous_mode
       IN /\ current_call_mode' = previous_mode
          /\ client_log' = Append(client_log, BlockEvent("exit", previous_mode, previous_mode, ""))
    /\ with_blocks' = SubSeq(with_blocks, 1, Len(with_blocks) - 1)
    /\ UNCHANGED <<batch_vars, http_vars, codec_vars, except_client, local_impl, init_local_impl, raising>>

\* call_mode, when the body of the innermost with-block raised: the exception
\* is thrown into the generator at its yield, which nothing guards, so the
\* generator ends there and the exception goes on
ExitCallModeRaising ==
    /\ pc = "client"
    /\ raising # NoErr
    /\ with_blocks # <<>>
    /\ client_log' = Append(client_log,
                            BlockEvent("exit", with_blocks[Len(with_blocks)].previous_mode,
                                       current_call_mode, raising.type))
    /\ with_blocks' = SubSeq(with_blocks, 1, Len(with_blocks) - 1)
    /\ UNCHANGED <<batch_vars, http_vars, codec_vars, except_client, current_call_mode, local_impl,
                   init_local_impl, raising>>

\* the code that uses the client catches the exception in flight
Catch ==
    /\ pc = "client"
    /\ raising # NoErr
    /\ raising' = NoErr
    /\ UNCHANGED <<batch_vars, http_vars, codec_vars, except_client, current_call_mode, local_impl,
                   init_local_impl, with_blocks, client_log>>

\* the property local_impl read by the code that uses the client, in any
\* mode: the implementation is created on first use, or the read raises
GetLocalImpl ==
    /\ pc = "client"
    /\ raising = NoErr
    /\ LET local_provider == LocalImpl(local_impl, init_local_impl)
       IN IF local_provider.ok
          THEN local_impl' = local_provider.val /\ raising' = raising
          ELSE local_impl' = local_impl /\ raising' = local_provider.err
    /\ UNCHANGED <<batch_vars, http_vars, codec_vars, except_client, current_call_mode,
                   init_local_impl, with_blocks, client_log>>

\* call_local_service called by the code that uses the client, in any mode:
\* the method of the local implementation returns or raises
CallLocalService(name, args) ==
    /\ pc = "client"
    /\ raising = NoErr
    /\ LET local_provider == LocalImpl(local_impl, init_local_impl)
       IN IF local_provider.ok
          THEN /\ local_impl' = local_provider.val
               /\ raising' \in {NoErr, Raise("KeyError", "x").err}
          ELSE local_impl' = local_impl /\ raising' = local_provider.err
    /\ UNCHANGED <<batch_vars, http_vars, codec_vars, except_client, current_call_mode,
                   init_local_impl, with_blocks, client_log>>

\* f_wrapper of @azureml_service, in local mode: call_local_service with the
\* name of the decorated method; the method of the local implementation
\* returns or raises
CallServiceLocal(name, args) ==
    /\ pc = "client"
    /\ raising = NoErr
    /\ Len(client_log) < MaxEvents
    /\ IsLocalMode(current_call_mode)
    /\ LET local_provider == LocalImpl(local_impl, init_local_impl)
       IN IF local_provider.ok
          THEN /\ local_impl' = local_provider.val
               /\ \E error \in {NoErr, Raise("KeyError", "x").err} :
                     /\ raising' = error
                     /\ client_log' = Append(client_log,
                                             Event("service", name, args, current_call_mode, "local",
                                                   <<local_provider.val, name, args>>, "",
                                                   IF error = NoErr THEN "" ELSE error.type, "", ""))
          ELSE /\ local_impl' = local_impl
               /\ raising' = local_provider.err
               /\ client_log' = Append(client_log,
                                       Event("service", name, args, current_call_mode, "", <<>>, "",
                                             local_provider.err.type, "", ""))
    /\ UNCHANGED <<batch_vars, http_vars, codec_vars, except_client, current_call_mode,
                   init_local_impl, with_blocks>>

\* f_wrapper of @azureml_service, outside local mode: the decorated method
\* runs; when its body calls self.call_azureml the outcome is the one of that
\* call, otherwise no remote call is made and the method returns
CallServiceRemote(name, args) ==
    /\ pc = "client"
    /\ raising = NoErr
    /\ Len(client_log) < MaxEvents
    /\ ~IsLocalMode(current_call_mode)
    /\ \E out \in IF CallsAzureml(name)
                   THEN CallAzureml(current_call_mode)
                   ELSE { [remote |-> "", error |-> NoErr] } :
          /\ raising' = out.error
          /\ client_log' = Append(client_log,
                                  Event("service", name, args, current_call_mode, "body",
                                        <<"self", name, args>>, out.remote,
                                        IF out.error = NoErr THEN "" ELSE out.error.type, "", ""))
    /\ UNCHANGED <<batch_vars, http_vars, codec_vars, except_client, current_call_mode, local_impl,
                   init_local_impl, with_blocks>>

InitClient ==
    /\ pc = "client"
    /\ BatchUnused
    /\ HttpUnused
    /\ CodecUnused
    /\ csv = NoCsv
    /\ blob_args = [entry |-> "none"]
    /\ blob_refs = NotCalled
    /\ storage = {}
    /\ clock = 0
    /\ calls = <<>>
    /\ body_args = [builder |-> "none"]
    /\ body = NotCalled
    /\ RespUnused
    /\ \E default_call_mode \in CallModes \cup {None} :
          current_call_mode = DefaultCallMode(default_call_mode)
    /\ local_impl = None
    /\ init_local_impl \in LocalImpls
    /\ with_blocks = <<>>
    /\ raising = NoErr
    /\ client_log = <<>>

NextClient ==
    \/ \E mode \in CallModes : SetCurrentCallMode(mode)
    \/ \E mode \in CallModes : EnterCallMode(mode)
    \/ ExitCallMode
    \/ ExitCallModeRaising
    \/ Catch
    \/ GetLocalImpl
    \/ \E name \in ServiceNames, args \in ServiceArgs : CallLocalService(name, args)
    \/ \E name \in ServiceNames, args \in ServiceArgs : CallServiceLocal(name, args)
    \/ \E name \in ServiceNames, args \in ServiceArgs : CallServiceRemote(name, args)

SpecClient == InitClient /\ [][NextClient]_vars

\* the with-blocks left so far
BlocksLeft == { i \in 1..Len(client_log) : client_log[i].op = "exit" }

\* C18: when a with-block of call_mode is left, by the end of its body or by
\* an exception, the call mode of the client is the one it had when the
\* block was entered
C18_ModeRestoredAfterBlock ==
    \A i \in BlocksLeft : client_log[i].after = client_log[i].before

\* the service calls made so far
ServiceCalls == { i \in 1..Len(client_log) : client_log[i].op = "service" }

\* C19: a service method called while the client is in local mode runs the
\* method of that name of the local implementation with the arguments of the
\* call and makes no remote call, or raises NotImplementedError when the
\* client has no local implementation; called in another mode it runs its own
\* body, whose remote call, when the body asks for one, is made in that mode
C19_LocalModeRouting ==
    \A i \in ServiceCalls :
        LET e == client_log[i]
        IN IF e.mode = "LocalCallMode"
           THEN /\ e.remote = ""
                /\ IF init_local_impl = None
                   THEN e.where = "" /\ e.error = "NotImplementedError"
                   ELSE /\ e.where = "local"
                        /\ e.ran = <<init_local_impl, e.name, e.args>>
                        /\ e.error # "NotImplementedError"
           ELSE /\ e.where = "body"
                /\ e.ran = <<"self", e.name, e.args>>
                /\ e.remote = IF CallsAzureml(e.name) THEN e.mode ELSE ""
                /\ e.mode \in {"RequestResponse", "Batch"}

\* the part of it that the code keeps: the routing, and no remote call in
\* local mode; outside local mode the body runs
C19_RoutedByMode ==
    \A i \in ServiceCalls :
        LET e == client_log[i]
        IN IF e.mode = "LocalCallMode"
           THEN /\ e.remote = ""
                /\ IF init_local_impl = None
                   THEN e.where = "" /\ e.error = "NotImplementedError"
                   ELSE /\ e.where = "local"
                        /\ e.ran = <<init_local_impl, e.name, e.args>>
                        /\ e.error # "NotImplementedError"
           ELSE /\ e.where = "body"
                /\ e.ran = <<"self", e.name, e.args>>

\* a client with a local implementation ran a service locally inside a
\* with-block, and a client without one raised NotImplementedError there
C19_Witness ==
    /\ with_blocks # <<>>
    /\ \E i \in ServiceCalls :
          /\ client_log[i].mode = "LocalCallMode"
          /\ \/ client_log[i].where = "local" /\ client_log[i].name = "subtract_columns"
             \/ client_log[i].error = "NotImplementedError"
    /\ \E i \in ServiceCalls : client_log[i].where = "body"

(***************************************************************************)
(* The gate of the polling loop of execute_bes.                            *)
(***************************************************************************)
\* the last snapshot received, when no poll was issued after it
LastSnapshot == snapshots[Len(snapshots)]
LastPollAnswered == Len(snapshots) > 0 /\ Count(trace, "poll") = Len(snapshots)

\* a snapshot with all its keys and the code of a job in progress
InProgress(snapshot) ==
    HasAllKeys(snapshot)
        /\ snapshot.StatusCode \in {"0", "NotStarted", "1", "Running", "4", "Finished"}

\* C20: after a snapshot with a code of NotStarted, Running or Finished the
\* loop goes by Results alone: with null Results the driver waits and is back
\* at the poll, no exception in flight and nothing deleted; with non-null
\* Results (an empty dict too) no further poll is issued, the loop is left
\* without an exception and Results is what it yields; and every snapshot
\* before the last one had such a code and null Results
C20_LoopGatedByResults ==
    /\ (LastPollAnswered /\ InProgress(LastSnapshot) /\ LastSnapshot.Results = None)
          => /\ pc \in {"sleep", "poll"}
             /\ pending = NoErr
             /\ "delete" \notin Range(trace)
    /\ (Len(snapshots) > 0 /\ InProgress(LastSnapshot) /\ LastSnapshot.Results # None)
          => /\ Count(trace, "poll") = Len(snapshots)
             /\ pc \in {"sleep", "finally", "retrieve", "done"}
             /\ pending = NoErr
             /\ outputs_refs2 = LastSnapshot.Results
    /\ \A i \in 1..(Len(snapshots) - 1) :
          InProgress(snapshots[i]) /\ snapshots[i].Results = None

\* Finished with null Results was polled again, and the loop then ended on a
\* NotStarted snapshot with Results
C20_Witness ==
    /\ Len(snapshots) = 2
    /\ snapshots[1] = [StatusCode |-> "Finished", Results |-> None, Details |-> None]
    /\ InProgress(snapshots[2])
    /\ snapshots[2].StatusCode = "NotStarted"
    /\ snapshots[2].Results # None
    /\ pc = "finally"
    /\ pending = NoErr

(***************************************************************************)
(* The order of the waits and the polls of execute_bes.                    *)
(***************************************************************************)
\* C21: every poll, the first one included, comes right after a sleep, and
\* delete never comes right after a sleep
C21_SleepBeforeEachPoll ==
    /\ \A i \in 1..Len(trace) : trace[i] = "poll" => (i > 1 /\ trace[i - 1] = "sleep")
    /\ \A i \in 2..Len(trace) : trace[i] = "delete" => trace[i - 1] # "sleep"

(***************************************************************************)
(* What a successful execute_bes returns.                                  *)
(***************************************************************************)
\* the invocation returned its outputs to the caller
ReturnedOutputs == pc = "done" /\ outcome.kind = "return"

\* C22 as stated: the outputs returned are those that the Results of the last
\* snapshot name
C22_OutputsFromResults ==
    ReturnedOutputs => outcome.val = LastSnapshot.Results

\* C22 amended: the outputs returned are read through the output references
\* created before the job, whatever the non-null Results of the last snapshot
\* holds
C22_OutputsFromCreatedReferences ==
    ReturnedOutputs =>
        /\ outcome.val = "output_refs"
        /\ Len(snapshots) > 0
        /\ InProgress(LastSnapshot)
        /\ LastSnapshot.Results # None

\* the job ended with an empty dict of Results and outputs were returned
C22_Witness ==
    /\ ReturnedOutputs
    /\ LastSnapshot.Results = "{}"
    /\ outcome.val = "output_refs"

(***************************************************************************)
(* The message of AzmlException.                                           *)
(***************************************************************************)
\* an error response whose body has error.code, error.message and a details
\* list beside error
DecodableError ==
    /\ pc = "http_done"
    /\ http_in.conn
    /\ RaisesForStatus(http_in.status)
    /\ http_in.text.json = "object"
    /\ http_in.text.error.has /\ http_in.text.error.json = "object"
    /\ http_in.text.error.val.code.has
    /\ http_in.text.error.val.message.has
    /\ http_in.text.details.has /\ http_in.text.details.json = "array"

\* the message "Error [C]: M", or "Error [C][D]: M. N" when `detailed` holds
\* of the details list, D and N being the code and message of its first element
MessageHasDetailWhen(detailed(_)) ==
    DecodableError =>
        LET error == http_in.text.error.val
            details == http_in.text.details.val
        IN http_out = Raise("AzmlException",
                            IF detailed(details)
                            THEN "Error [" \o error.code.val \o "][" \o details[1].code.val \o "]: "
                                     \o error.message.val \o ". " \o details[1].message.val
                            ELSE "Error [" \o error.code.val \o "]: " \o error.message.val)

FirstElementComplete(details) ==
    Len(details) >= 1 /\ details[1].code.has /\ details[1].message.has

\* C23 as stated: the detail part is there only when the details list has
\* exactly one element, which has both code and message
C23_DetailOnlyWhenSingle ==
    MessageHasDetailWhen(LAMBDA details : Len(details) = 1 /\ FirstElementComplete(details))

\* C23 amended: the detail part is there when the details list has at least
\* one element and its first element has both code and message, and it is
\* made of this first element; otherwise the message is "Error [C]: M"
C23_DetailOfFirstElement == MessageHasDetailWhen(FirstElementComplete)

\* a body with two details raised with the code and message of the first one
C23_Witness ==
    /\ DecodableError
    /\ http_in.text.details.val = <<Detail1, Detail2>>
    /\ http_out = Raise("AzmlException", "Error [E1][D1]: bad. detail")

(***************************************************************************)
(* execute_bes issues every call once.                                     *)
(***************************************************************************)
\* the job-control call that raised is the last one, or the last one before
\* the delete of the finally block
LastBeforeDelete(call) ==
    LET n == Len(JobCalls)
    IN /\ n > 0
       /\ \/ JobCalls[n] = call
          \/ n > 1 /\ JobCalls[n] = "delete" /\ JobCalls[n - 1] = call

\* C24: create, start and delete are issued at most once; every poll but the
\* last one returned a snapshot; once create, start or a poll has raised, no
\* job-control call follows it but one delete, and nothing follows a delete
\* that raised
C24_NoRetry ==
    /\ \A call \in {"create", "start", "delete"} : Count(trace, call) <= 1
    /\ Count(trace, "poll") <= Len(snapshots) + 1
    /\ pending # NoErr => LastBeforeDelete(pending.at)
    /\ (outcome.kind = "raise" /\ outcome.err.at = "delete")
          => JobCalls[Len(JobCalls)] = "delete"

\* start raised: the job was deleted and nothing else was called
C24_Witness ==
    /\ pc = "done"
    /\ pending.at = "start"
    /\ JobCalls = <<"create", "start", "delete">>

(***************************************************************************)
(* Progress of execute_bes.  The driver is sequential code and every call  *)
(* it makes returns or raises, so a step that can be taken is taken.       *)
(***************************************************************************)
SpecLive == Init /\ [][Next]_vars /\ WF_vars(Next)

\* the service answered a poll with a snapshot that is not one of a job in
\* progress with null Results
TerminalSnapshot ==
    Len(snapshots) > 0 /\ ~(InProgress(LastSnapshot) /\ LastSnapshot.Results = None)

\* the driver is past its polling loop with no exception in flight
LeftLoopByItself ==
    /\ "start" \in Range(trace)
    /\ pc \in {"finally", "retrieve", "done"}
    /\ pending = NoErr

\* the invocation is over and the job was deleted
DeletedAndOver == pc = "done" /\ Count(trace, "delete") = 1 /\ outcome.kind \in {"return", "raise"}

\* C25: the driver leaves its polling loop by itself only on a snapshot with
\* non-null Results, however many polls it takes; and once the service has
\* answered with a terminal snapshot the driver comes to issue delete and to
\* return or raise
C25_PollsUntilTerminalThenDeletes ==
    /\ [](LeftLoopByItself => (Len(snapshots) > 0 /\ LastSnapshot.Results # None))
    /\ (TerminalSnapshot ~> DeletedAndOver)

\* after MaxPolls snapshots of a job in progress the driver is about to poll
\* again
C25_Witness ==
    /\ Len(snapshots) = MaxPolls
    /\ \A i \in 1..MaxPolls : InProgress(snapshots[i]) /\ snapshots[i].Results = None
    /\ pc = "poll"
    /\ pending = NoErr

(***************************************************************************)
(* azml_json_serializer (base_databinding.py), the `default` of json.dumps *)
(* in azmltable_to_json.  A value is [type, val, items]: the name of its   *)
(* class, its text, and its elements when it is an array or a list.        *)
(***************************************************************************)
\* the number of elements of the arrays tried
MaxArray == 2

Value(type, val) == [type |-> type, val |-> val, items |-> <<>>]

\* the classes of numpy.integer, of numpy.floating, and of datetime.datetime
\* (pandas.Timestamp is one of its subclasses)
NumpyIntegers == {"numpy.int64", "numpy.int32", "numpy.uint8"}
NumpyFloatings == {"numpy.float64", "numpy.float32"}
Datetimes == {"datetime", "Timestamp"}

\* the classes of numpy.generic, the numpy scalars
NumpyGenerics == NumpyIntegers \cup NumpyFloatings \cup {"numpy.bool_", "numpy.datetime64", "numpy.str_"}

\* numpy.issubdtype(type(obj), datetime): both arguments are turned into
\* numpy scalar classes, datetime into numpy.object_ and so is every class
\* (NoneType, set, decimal.Decimal) but the numpy scalars and the builtin
\* classes that numpy has a dtype of their own for (bool, int, float, str)
IsSubdtypeOfDatetime(type) ==
    type \notin NumpyGenerics \cup {"bool", "int", "float", "str"}

\* obj.isoformat(): the text of the datetime with "T" for its space; a value
\* of another class has no such method, and the AttributeError names its class
IsoFormat(obj) ==
    IF obj.type \in Datetimes
    THEN Ok(Value("str", SubSeq(obj.val, 1, 10) \o "T" \o SubSeq(obj.val, 12, Len(obj.val))))
    ELSE Raise("AttributeError", "'" \o obj.type \o "' object has no attribute 'isoformat'")

\* the Python value of an element of an array, as ndarray.tolist() gives it
ToPython(dtype, val) ==
    Value(IF dtype = "bool" THEN "bool" ELSE IF dtype = "int64" THEN "int" ELSE "float", val)

\* azml_json_serializer
AzmlJsonSerializer(obj) ==
    IF obj.type \in NumpyIntegers
    THEN Ok(Value("int", obj.val))
    ELSE IF obj.type = "bool"
    THEN Ok(Value("bool", obj.val))
    ELSE IF obj.type \in NumpyFloatings
    THEN Ok(Value("float", obj.val))
    ELSE IF obj.type = "numpy.ndarray"
    THEN Ok([type |-> "list", val |-> "",
             items |-> [i \in 1..Len(obj.items) |-> ToPython(obj.val, obj.items[i])]])
    ELSE IF obj.type \in Datetimes \/ IsSubdtypeOfDatetime(obj.type)
    THEN IsoFormat(obj)
    ELSE Raise("TypeError", "Type not serializable : " \o obj.val)

\* the classes that json.dumps writes without calling `default`, with the
\* builtin class each is written as: numpy.float64 is a subclass of float and
\* numpy.str_ one of str
JsonNative == {"bool", "int", "float", "str", "NoneType", "list", "numpy.float64", "numpy.str_"}
NativeClass(type) ==
    IF type = "numpy.float64" THEN "float" ELSE IF type = "numpy.str_" THEN "str" ELSE type

\* json.dumps(obj, default=azml_json_serializer): the Python value written
JsonDumps(obj) ==
    IF obj.type \in JsonNative
    THEN Ok([obj EXCEPT !.type = NativeClass(obj.type)])
    ELSE AzmlJsonSerializer(obj)

\* the scalars tried, by class, with the texts of their values
ScalarTexts(type) ==
    IF type \in {"bool", "numpy.bool_"} THEN {"True", "False"}
    ELSE IF type \in NumpyIntegers \cup {"int"} THEN {"0", "1"}
    ELSE IF type \in NumpyFloatings \cup {"float"} THEN {"1.5", "1.0"}
    ELSE IF type \in Datetimes THEN {"2020-01-01 00:00:00", "2020-01-02 10:30:00+00:00"}
    ELSE IF type = "numpy.datetime64" THEN {"2020-01-01T00:00:00"}
    ELSE IF type = "NoneType" THEN {"None"}
    ELSE {"abc"}

ScalarTypes ==
    NumpyGenerics \cup Datetimes \cup {"bool", "int", "float", "str", "NoneType", "set", "decimal.Decimal"}

\* the one-dimensional arrays tried
Arrays ==
    { [type |-> "numpy.ndarray", val |-> dtype, items |-> items] :
        <<dtype, items>> \in UNION { {dtype} \X UNION { [1..n -> ScalarTexts(ToPython(dtype, "").type)] :
                                                         n \in 0..MaxArray } :
                                     dtype \in {"bool", "int64", "float64"} } }

JsonObjects == UNION { { Value(type, val) : val \in ScalarTexts(type) } : type \in ScalarTypes } \cup Arrays

\* azml_json_serializer called on a value
Serialize ==
    /\ pc = "json"
    /\ body_args.builder = "azml_json_serializer"
    /\ body' = AzmlJsonSerializer(body_args.obj)
    /\ pc' = "json_done"
    /\ UNCHANGED <<batch_rest, http_vars, codec_vars, except_body, body_args, storage>>

\* json.dumps called on a value with azml_json_serializer as its default
Dumps ==
    /\ pc = "json"
    /\ body_args.builder = "json.dumps"
    /\ body' = JsonDumps(body_args.obj)
    /\ pc' = "json_done"
    /\ UNCHANGED <<batch_rest, http_vars, codec_vars, except_body, body_args, storage>>

InitJson ==
    /\ pc = "json"
    /\ BatchUnused
    /\ HttpUnused
    /\ CodecUnused
    /\ csv = NoCsv
    /\ blob_args = [entry |-> "none"]
    /\ blob_refs = NotCalled
    /\ storage = {}
    /\ clock = 0
    /\ calls = <<>>
    /\ body_args \in [builder : {"azml_json_serializer", "json.dumps"}, obj : JsonObjects]
    /\ body = NotCalled
    /\ RespUnused
    /\ ClientUnused

NextJson == Serialize \/ Dumps

SpecJson == InitJson /\ [][NextJson]_vars

\* the failure of an unsupported value type: azml_json_serializer's TypeError
UnsupportedValueType(result) ==
    /\ ~result.ok
    /\ result.err.type = "TypeError"
    /\ result.err.msg = "Type not serializable : " \o body_args.obj.val

\* C26: a boolean is emitted as a boolean, an integer as an integer, a float
\* as a float, an array as the list of its elements, a datetime as its ISO
\* 8601 text, and a value of any other class fails as an unsupported value
\* type (a string or a null given to json.dumps is written by json.dumps
\* itself), whether the serializer is called on the value or json.dumps is
C26_ScalarKindsEmitted ==
    pc = "json_done" =>
        LET type == body_args.obj.type
        IN IF type \in {"bool", "numpy.bool_"}
           THEN body = Ok(Value("bool", body_args.obj.val))
           ELSE IF type \in {"int", "numpy.int64", "numpy.int32", "numpy.uint8"}
           THEN body = Ok(Value("int", body_args.obj.val))
           ELSE IF type \in {"float", "numpy.float64", "numpy.float32"}
           THEN body = Ok(Value("float", body_args.obj.val))
           ELSE IF type = "numpy.ndarray"
           THEN body.ok /\ body.val.type = "list" /\ Len(body.val.items) = Len(body_args.obj.items)
           ELSE IF type \in {"datetime", "Timestamp"}
           THEN body.ok /\ body.val.type = "str" /\ SubSeq(body.val.val, 11, 11) = "T"
           ELSE IF type \in {"str", "NoneType", "numpy.str_"} /\ body_args.builder = "json.dumps"
           THEN body = Ok(Value(NativeClass(type), body_args.obj.val))
           ELSE UnsupportedValueType(body)

(***************************************************************************)
(* The charset of the blobs (base_databinding_blobs.py).  A text is the    *)
(* sequence of its code points and the content of a blob the sequence of   *)
(* its bytes.                                                              *)
(***************************************************************************)
\* the number of characters of the texts tried
MaxText == 2

\* str.encode('utf-8') of one character: one byte below 128, two bytes up to
\* 2047, three up to 65535, four above
EncodeUtf8Char(cp) ==
    IF cp < 128 THEN <<cp>>
    ELSE IF cp < 2048 THEN <<192 + (cp \div 64), 128 + (cp % 64)>>
    ELSE IF cp < 65536
    THEN <<224 + (cp \div 4096), 128 + ((cp \div 64) % 64), 128 + (cp % 64)>>
    ELSE <<240 + (cp \div 262144), 128 + ((cp \div 4096) % 64),
           128 + ((cp \div 64) % 64), 128 + (cp % 64)>>

RECURSIVE EncodeUtf8(_)
EncodeUtf8(text) ==
    IF Len(text) = 0 THEN <<>> ELSE EncodeUtf8Char(text[1]) \o EncodeUtf8(Tail(text))

\* str.encode: latin-1 writes one byte for each character
Encode(text, charset) == IF charset = "latin-1" THEN text ELSE EncodeUtf8(text)

\* the number of bytes of the character that this byte starts, 0 when it
\* starts none
Utf8Length(lead) ==
    IF lead < 128 THEN 1
    ELSE IF lead >= 194 /\ lead <= 223 THEN 2
    ELSE IF lead >= 224 /\ lead <= 239 THEN 3
    ELSE IF lead >= 240 /\ lead <= 244 THEN 4
    ELSE 0

\* the values that the byte after this lead byte may take: no overlong form,
\* no surrogate, nothing above U+10FFFF
Utf8SecondLow(lead) == IF lead = 224 THEN 160 ELSE IF lead = 240 THEN 144 ELSE 128
Utf8SecondHigh(lead) == IF lead = 237 THEN 159 ELSE IF lead = 244 THEN 143 ELSE 191

\* whether the bytes start with one well-formed character of n bytes
Utf8WellFormed(bytes, n) ==
    /\ n > 0
    /\ Len(bytes) >= n
    /\ n >= 2 => bytes[2] >= Utf8SecondLow(bytes[1]) /\ bytes[2] <= Utf8SecondHigh(bytes[1])
    /\ \A i \in 3..n : bytes[i] >= 128 /\ bytes[i] <= 191

\* the code point of the well-formed character of n bytes
Utf8CodePoint(bytes, n) ==
    IF n = 1 THEN bytes[1]
    ELSE IF n = 2 THEN (bytes[1] - 192) * 64 + (bytes[2] - 128)
    ELSE IF n = 3 THEN (bytes[1] - 224) * 4096 + (bytes[2] - 128) * 64 + (bytes[3] - 128)
    ELSE (bytes[1] - 240) * 262144 + (bytes[2] - 128) * 4096
             + (bytes[3] - 128) * 64 + (bytes[4] - 128)

\* bytes.decode('utf-8'), the decoding of get_blob_to_text: the text, or
\* UnicodeDecodeError on a byte that starts or continues no character
RECURSIVE DecodeUtf8(_)
DecodeUtf8(bytes) ==
    IF Len(bytes) = 0 THEN Ok(<<>>)
    ELSE LET n == Utf8Length(bytes[1])
         IN IF Utf8WellFormed(bytes, n)
            THEN LET rest == DecodeUtf8(SubSeq(bytes, n + 1, Len(bytes)))
                 IN IF rest.ok THEN Ok(<<Utf8CodePoint(bytes, n)>> \o rest.val) ELSE rest
            ELSE Raise("UnicodeDecodeError", "'utf-8' codec can't decode byte")

\* csv_to_blob_ref: the blob created, and whether the warning was printed
CsvToBlobRef(csv_str, blob_container, blob_name, charset) ==
    LET used == IF charset = None THEN "utf-8" ELSE charset
        ref == CreateBlobRef(blob_container, blob_name, None)
    IN [blob_reference |-> ref.output_ref,
        warning |-> used # "utf-8",
        blob |-> [container |-> blob_container, name |-> ref.blob_full_name,
                  content |-> Encode(csv_str, used), content_encoding |-> used]]

\* blob_ref_to_csv on the reference of this blob
BlobRefToCsv(blob, encoding) ==
    IF encoding # None /\ encoding # "utf-8"
    THEN Raise("ValueError", "Unsupported encoding to retrieve blobs : " \o encoding)
    ELSE DecodeUtf8(blob.content)

\* the texts tried: a, e acute, A tilde, copyright sign, a with circumflex,
\* the control characters U+0082 and U+00AC
Texts == UNION { [1..n -> {97, 233, 195, 169, 226, 130, 172}] : n \in 0..MaxText }
Charsets == {None, "utf-8", "latin-1"}

\* the calls tried: csv_to_blob_ref then blob_ref_to_csv with an encoding, and
\* execute_bes with a blob_charset, whose outputs the job writes
CharsetCalls ==
    [entry : {"blob_ref_to_csv"}, csv_str : Texts, charset : Charsets, encoding : Charsets]
        \cup [entry : {"execute_bes"}, csv_str : Texts, charset : Charsets, encoding : {None}]

\* csv_to_blob_ref, and step 1 of execute_bes with charset=blob_charset
WriteBlob ==
    /\ pc = "charset_write"
    /\ LET r == CsvToBlobRef(blob_args.csv_str, "c", "in", blob_args.charset)
       IN /\ storage' = {r.blob}
          /\ blob_refs' = Ok([warning |-> r.warning, text |-> <<>>])
    /\ pc' = IF blob_args.entry = "execute_bes" THEN "charset_job" ELSE "charset_read"
    /\ UNCHANGED <<batch_rest, http_vars, codec_vars, except_blob, blob_args>>

\* the job of execute_bes writes its output, the text of its input, in the
\* charset of the input or in utf-8
JobWritesOutput ==
    /\ pc = "charset_job"
    /\ \E blob \in storage : \E charset \in {"utf-8", blob.content_encoding} :
          storage' = storage \cup {[container |-> "c", name |-> "out.csv",
                                    content |-> Encode(blob_args.csv_str, charset),
                                    content_encoding |-> charset]}
    /\ pc' = "charset_read"
    /\ UNCHANGED <<batch_rest, http_vars, codec_vars, except_blob, blob_args, blob_refs>>

\* blob_ref_to_csv with the encoding given; step 4 of execute_bes, which
\* reads the output without giving an encoding
ReadBlob ==
    /\ pc = "charset_read"
    /\ \E blob \in storage :
          /\ blob.name = IF blob_args.entry = "execute_bes" THEN "out.csv" ELSE "in.csv"
          /\ LET r == BlobRefToCsv(blob, blob_args.encoding)
             IN blob_refs' = IF r.ok
                             THEN Ok([warning |-> blob_refs.val.warning, text |-> r.val])
                             ELSE r
    /\ pc' = "charset_done"
    /\ UNCHANGED <<batch_rest, http_vars, codec_vars, except_blob, blob_args, storage>>

InitCharset ==
    /\ pc = "charset_write"
    /\ BatchUnused
    /\ HttpUnused
    /\ CodecUnused
    /\ csv = NoCsv
    /\ blob_args \in CharsetCalls
    /\ blob_refs = NotCalled
    /\ storage = {}
    /\ clock = 0
    /\ calls = <<>>
    /\ body_args = [builder |-> "none"]
    /\ body = NotCalled
    /\ RespUnused
    /\ ClientUnused

NextCharset == WriteBlob \/ JobWritesOutput \/ ReadBlob

SpecCharset == InitCharset /\ [][NextCharset]_vars

\* the blob that the call reads back
BlobRead ==
    CHOOSE blob \in storage :
        blob.name = IF blob_args.entry = "execute_bes" THEN "out.csv" ELSE "in.csv"

\* C27: a blob is accepted at upload whatever its charset, with a warning when
\* it is not utf-8; and reading back a blob that is not in utf-8 raises the
\* error of an unsupported encoding, in execute_bes too
C27_NonUtf8BlobNotReadBack ==
    /\ pc \in {"charset_job", "charset_read"}
          => blob_refs.ok /\ (blob_refs.val.warning <=> blob_args.charset = "latin-1")
    /\ (pc = "charset_done" /\ BlobRead.content_encoding # "utf-8")
          => ~blob_refs.ok /\ blob_refs.err.type = "ValueError"

(***************************************************************************)
(* A create call that raises, and the order of the phases of execute_bes.  *)
(***************************************************************************)
\* C28: when create raised there is no job id, create is the only job-control
\* call of the invocation, nothing is downloaded, and the caller receives the
\* exception that create raised
C28_CreateFailureStopsDriver ==
    pending.at = "create" =>
        /\ json_job_id = None
        /\ JobCalls = <<"create">>
        /\ "download" \notin Range(trace)
        /\ pc \in {"finally", "done"}
        /\ pc = "done" => outcome = Raised(pending)

\* create answered 400 with an error body and the caller got AzmlException
C28_Witness ==
    /\ pc = "done"
    /\ pending.at = "create"
    /\ pending.type = "AzmlException"
    /\ outcome = Raised(pending)
    /\ trace = <<"push", "create">>

\* C29: the push of the inputs and the creation of the output references are
\* the first step and are over before create; a failed push is the only step
\* of its invocation; a download comes right after a delete that returned,
\* and never in an invocation where a call raised
C29_PhasesOrdered ==
    /\ \A i \in 1..Len(trace) : trace[i] = "push" => i = 1
    /\ \A i \in 1..Len(trace) : trace[i] = "create" => (i = 2 /\ trace[1] = "push")
    /\ (outcome.kind = "raise" /\ outcome.err.at = "push") => trace = <<"push">>
    /\ \A i \in 1..Len(trace) :
          trace[i] = "download" => (i > 1 /\ trace[i - 1] = "delete" /\ i = Len(trace))
    /\ pending # NoErr => "download" \notin Range(trace)
    /\ (outcome.kind = "raise" /\ outcome.err.at = "delete") => "download" \notin Range(trace)

\* a whole invocation: push, create, start, one poll, delete, download
C29_Witness ==
    /\ pc = "done"
    /\ outcome.kind = "return"
    /\ trace = <<"push", "create", "start", "poll", "sleep", "delete", "download">>

====
